---- MODULE Spec2Model ----
(***************************************************************************)
(* State-machine model of the GoXLR utility daemon's Device controller     *)
(* (daemon/src/device.rs) and microphone profile adapter                   *)
(* (daemon/src/mic_profile.rs).                                            *)
(*                                                                         *)
(* Every handler of the controller is an operator from a device record to  *)
(* a device record.  The record carries the Profile Store, the Mic Profile *)
(* Store, the settings, the values last pushed to the hardware, the        *)
(* poll-loop bookkeeping, and three pieces of execution state: `err' (an   *)
(* error is propagating, as Rust's `?' does), `fuel' (how many hardware    *)
(* calls still succeed before one fails; -1 = none fails) and `log' (the   *)
(* hardware calls and handler invocations of the running operation).       *)
(***************************************************************************)
EXTENDS Integers, Sequences, FiniteSets, TLC

VARIABLES
  profile,        \* Device.profile      (Profile Store)
  mic_profile,    \* Device.mic_profile  (Mic Profile Store)
  settings,       \* Device.settings     (daemon settings + profile files on disk)
  goxlr,          \* values last accepted by the hardware session (Device.goxlr)
  last_buttons,   \* Device.last_buttons
  button_states,  \* Device.button_states
  audio_handler,  \* Device.audio_handler is Some(..)
  now,            \* wall clock in ms, as read by get_epoch_ms
  last,           \* the operation of the last step: its input, result and log
  hist            \* history needed to state the claims (never read by the code)

vars == <<profile, mic_profile, settings, goxlr, last_buttons, button_states,
          audio_handler, now, last, hist>>

-----------------------------------------------------------------------------
(* A command of the IPC client and its (at most three) arguments.  TLC     *)
(* keeps the fields of a record in the order in which their names first    *)
(* appear in the module, and the workers share the command records of the  *)
(* actions: the definition comes first so that the record is built in that *)
(* order.                                                                  *)
Cmd(name, a, b, c) == [name |-> name, a |-> a, b |-> b, c |-> c]

-----------------------------------------------------------------------------
(* Bounds of the model                                                     *)

\* Volumes range over 0..MaxVolume (a u8 in the code).
MaxVolume == 2
\* The clock stops at MaxTime quarter seconds.
MaxTime == 7
\* At most this many buttons change between two snapshots.
MaxChanged == 1

(* Program constants                                                       *)

\* `(now - press_time) > 500'
HoldThreshold == 500
\* mic_fader_id of a profile in which no fader carries the microphone
NoMicFader == 4
\* gains written into a routing row
GainEnabled == 32
GainHardTuneAll == 4
GainHardTuneSingle == 16
\* the bleep volume reported when none is stored
DefaultBleepStatus == -14
\* the bleep volume pushed when none is stored
DefaultBleepEffect == -20

-----------------------------------------------------------------------------
(* Enumerations (goxlr_types, goxlr_usb, goxlr_profile_loader)             *)

FaderName == 0 .. 3      \* FaderName::A .. FaderName::D `as usize'

ChannelName == {"Mic", "LineIn", "Console", "System", "Game", "Chat", "Sample",
                "Music", "Headphones", "MicMonitor", "LineOut"}

BasicInputDevice == {"Microphone", "Chat", "Music", "Game", "Console", "LineIn",
                     "System", "Samples"}

BasicOutputDevice == {"Headphones", "BroadcastMix", "LineOut", "ChatMic", "Sampler"}

\* The destinations of a routing row that the controller writes: the basic
\* outputs (each a left/right pair of positions) and the hard-tune position.
RouteDest == BasicOutputDevice \cup {"HardTune"}

MuteFunction == {"All", "ToStream", "ToVoiceChat", "ToPhones", "ToLineOut"}

FaderMuteButtons == {"Fader1Mute", "Fader2Mute", "Fader3Mute", "Fader4Mute"}

EffectSelectButtons == {"EffectSelect1", "EffectSelect2", "EffectSelect3",
                        "EffectSelect4", "EffectSelect5", "EffectSelect6"}

SamplerSelectButtons == {"SamplerSelectA", "SamplerSelectB", "SamplerSelectC"}

SampleButtons == {"TopLeft", "TopRight", "BottomLeft", "BottomRight"}

SamplerPadButtons == {"SamplerTopLeft", "SamplerTopRight", "SamplerBottomLeft",
                      "SamplerBottomRight"}

Buttons == FaderMuteButtons \cup EffectSelectButtons \cup SamplerSelectButtons
           \cup SamplerPadButtons
           \cup {"MicrophoneMute", "Bleep", "EffectFx", "EffectMegaphone",
                 "EffectRobot", "EffectHardTune", "SamplerClear"}

-----------------------------------------------------------------------------
(* Execution state of a running operation                                  *)

\* One entry of the log: a hardware call, a store write to the settings, or
\* the invocation of a handler.  `kv' holds the (key, value) pairs of a
\* set_effect_values / set_mic_param call.
Ev(op, key, val) == [op |-> op, key |-> key, val |-> val, kv |-> {}, ok |-> TRUE]

EvKV(op, kv) == [op |-> op, key |-> "", val |-> 0, kv |-> kv, ok |-> TRUE]

\* A statement that is skipped while an error propagates (`?').
Step(d, e) == IF d.err THEN d ELSE e

Note(d, ev) == Step(d, [d EXCEPT !.log = Append(@, ev)])

\* A call into the hardware session: it fails when the fuel is used up, and
\* then the error propagates; otherwise the hardware takes the new value g.
HwCall(d, ev, g) ==
  IF d.err THEN d
  ELSE IF d.fuel = 0
       THEN [d EXCEPT !.err = TRUE, !.fuel = -1,
                      !.log = Append(@, [ev EXCEPT !.ok = FALSE])]
       ELSE [d EXCEPT !.goxlr = g,
                      !.fuel = IF @ > 0 THEN @ - 1 ELSE @,
                      !.log = Append(@, ev)]

\* `call()?; rest': the rest of the handler runs on the device the call left,
\* unless the call returned Err.
Then(d, rest(_)) == IF d.err THEN d ELSE rest(d)

\* `return Err(anyhow!(..))'
Fail(d, why) ==
  Step(d, [d EXCEPT !.err = TRUE, !.log = Append(@, [Ev("Err", why, 0) EXCEPT !.ok = FALSE])])

\* An error that is handed on to the caller instead.
Propagate(d) == d

\* `if let Err(error) = .. { error!("{}", error); }'
Swallow(d) ==
  IF d.err THEN [d EXCEPT !.err = FALSE, !.log = Append(@, Ev("error!", "", 0))] ELSE d

-----------------------------------------------------------------------------
(* Hardware Session: the typed operations of GoXLR<T>                      *)

goxlr_set_fader(d, fader, channel) ==
  HwCall(d, Ev("set_fader", channel, fader),
         [d.goxlr EXCEPT !.fader[fader] = channel])

goxlr_set_volume(d, channel, volume) ==
  HwCall(d, Ev("set_volume", channel, volume),
         [d.goxlr EXCEPT !.volume[channel] = volume])

goxlr_set_channel_state(d, channel, state) ==
  HwCall(d, Ev("set_channel_state", channel, IF state = "Muted" THEN 1 ELSE 0),
         [d.goxlr EXCEPT !.state[channel] = state])

\* side is "left" or "right"; row is the destination-gain array
goxlr_set_routing(d, input, side, row) ==
  HwCall(d, Ev("set_routing", input, IF side = "left" THEN 0 ELSE 1),
         [d.goxlr EXCEPT !.routing[input][side] = row])

goxlr_set_button_states(d, states) ==
  HwCall(d, Ev("set_button_states", "", 0), [d.goxlr EXCEPT !.buttons = states])

-----------------------------------------------------------------------------
(* Profile Store: the accessors of ProfileAdapter used by the controller   *)

get_fader_assignment(d, fader) == d.profile.faders[fader]

set_fader_assignment(d, fader, channel) ==
  Step(d, [d EXCEPT !.profile.faders[fader] = channel])

\* Swaps the two faders and their mute buttons.
switch_fader_assignment(d, fader_one, fader_two) ==
  Step(d, [d EXCEPT
    !.profile.faders = [@ EXCEPT ![fader_one] = d.profile.faders[fader_two],
                                 ![fader_two] = d.profile.faders[fader_one]],
    !.profile.mute_buttons =
        [@ EXCEPT ![fader_one] = d.profile.mute_buttons[fader_two],
                  ![fader_two] = d.profile.mute_buttons[fader_one]]])

get_channel_volume(d, channel) == d.profile.volumes[channel]

set_channel_volume(d, channel, volume) ==
  Step(d, [d EXCEPT !.profile.volumes[channel] = volume])

\* (muted_to_x, muted_to_all, mute_function): the button's light is on, the
\* button blinks, and its configured function.
get_mute_button_state(d, fader) ==
  LET b == d.profile.mute_buttons[fader]
  IN  [muted_to_x |-> b.state, muted_to_all |-> b.blink, mute_function |-> b.mute_function]

\* set_mute_button_on, set_mute_button_blink, set_mute_button_previous_volume
\* and set_mute_button_behaviour: one field of a fader's mute button
set_mute_button(d, fader, field, value) ==
  Step(d, [d EXCEPT !.profile.mute_buttons[fader][field] = value])

\* (mute_toggle, muted_to_x, muted_to_all, mute_function) of the cough button
get_mute_chat_button_state(d) ==
  LET b == d.profile.mute_chat
  IN  [mute_toggle |-> b.toggle, muted_to_x |-> b.state, muted_to_all |-> b.blink,
       mute_function |-> b.mute_function]

\* set_mute_chat_button_on, set_mute_chat_button_blink,
\* set_chat_mute_button_behaviour and set_chat_mute_button_is_held (which
\* stores toggle = ~is_hold): one field of the cough button
set_mute_chat_button(d, field, value) ==
  Step(d, [d EXCEPT !.profile.mute_chat[field] = value])

get_mic_fader_id(d) == d.profile.mute_chat.mic_fader_id

set_mic_fader_id(d, id) ==
  Step(d, [d EXCEPT !.profile.mute_chat.mic_fader_id = id])

set_swear_button_on(d, on) == Step(d, [d EXCEPT !.profile.swear_on = on])

\* The persisted routing of one input: the set of enabled outputs.
get_router(d, input) == d.profile.router[input]

set_routing(d, input, output, enabled) ==
  Step(d, [d EXCEPT !.profile.router[input] =
                       IF enabled THEN @ \cup {output} ELSE @ \ {output}])

\* The presets of the selected effect bank.
active_effects(d) == d.profile.effects[d.profile.effect_bank]

get_active_hardtune_source(d) == active_effects(d).hardtune_source

is_hardtune_pitch_enabled(d) == active_effects(d).hardtune

is_pitch_narrow(d) == active_effects(d).narrow

\* get_pitch_value, get_gender_value, get_reverb_value, get_echo_value
get_encoder_value(d, encoder) == active_effects(d)[encoder]

\* set_pitch_value, set_gender_value, set_reverb_value, set_echo_value
set_encoder_value(d, encoder, value) ==
  Step(d, [d EXCEPT !.profile.effects[d.profile.effect_bank][encoder] = value])

\* toggle_megaphone, toggle_robot, toggle_hardtune of the store
profile_toggle(d, effect) ==
  Step(d, [d EXCEPT !.profile.effects[d.profile.effect_bank][effect] = ~@])

current_sample_bank_has_samples(d, button) ==
  d.profile.samples[d.profile.sample_bank][button] # ""

get_sample_file(d, button) == d.profile.samples[d.profile.sample_bank][button]

is_sample_active(d, button) == button \in d.profile.sample_active

set_sample_button_state(d, button, on) ==
  Step(d, [d EXCEPT !.profile.sample_active =
                       IF on THEN @ \cup {button} ELSE @ \ {button}])


effect_preset_of(button) ==
  CASE button = "EffectSelect1" -> "Preset1" [] button = "EffectSelect2" -> "Preset2"
    [] button = "EffectSelect3" -> "Preset3" [] button = "EffectSelect4" -> "Preset4"
    [] button = "EffectSelect5" -> "Preset5" [] OTHER -> "Preset6"


sample_bank_of(button) ==
  CASE button = "SamplerSelectA" -> "A" [] button = "SamplerSelectB" -> "B" [] OTHER -> "C"

\* The lighting of one button, from the store.
get_button_colour_state(d, button) ==
  LET fader == CASE button = "Fader1Mute" -> 0 [] button = "Fader2Mute" -> 1
                 [] button = "Fader3Mute" -> 2 [] button = "Fader4Mute" -> 3
                 [] OTHER -> NoMicFader
      lit == IF fader # NoMicFader THEN d.profile.mute_buttons[fader].state
             ELSE IF button = "Bleep" THEN d.profile.swear_on
             ELSE IF button = "EffectFx" THEN d.profile.fx_enabled
             ELSE IF button = "EffectMegaphone" THEN active_effects(d).megaphone
             ELSE IF button = "EffectRobot" THEN active_effects(d).robot
             ELSE IF button = "EffectHardTune" THEN active_effects(d).hardtune
             ELSE IF button \in EffectSelectButtons
                  THEN effect_preset_of(button) = d.profile.effect_bank
             ELSE IF button \in SamplerSelectButtons
                  THEN sample_bank_of(button) = d.profile.sample_bank
             ELSE IF button = "SamplerTopLeft" THEN "TopLeft" \in d.profile.sample_active
             ELSE IF button = "SamplerTopRight" THEN "TopRight" \in d.profile.sample_active
             ELSE IF button = "SamplerBottomLeft" THEN "BottomLeft" \in d.profile.sample_active
             ELSE IF button = "SamplerBottomRight" THEN "BottomRight" \in d.profile.sample_active
             ELSE FALSE
      blink == fader # NoMicFader /\ d.profile.mute_buttons[fader].blink
  IN  IF lit /\ blink THEN "Flashing"
      ELSE IF lit THEN "Colour1" ELSE "DimmedColour1"

get_mute_chat_button_colour_state(d) ==
  IF d.profile.mute_chat.state /\ d.profile.mute_chat.blink THEN "Flashing"
  ELSE IF d.profile.mute_chat.state THEN "Colour1" ELSE "DimmedColour1"

-----------------------------------------------------------------------------
(* Device controller: lighting and routing                                 *)

create_button_states(d) ==
  [b \in Buttons |-> IF b = "MicrophoneMute" THEN get_mute_chat_button_colour_state(d)
                     ELSE get_button_colour_state(d, b)]

update_button_states(d) == goxlr_set_button_states(d, create_button_states(d))

\* A row whose hard-tune entry has the same gain for a single source as for
\* the source `all'.
channel_routing_row_one_gain(d, input, router) ==
  [o \in RouteDest |->
     IF o = "HardTune"
     THEN IF get_active_hardtune_source(d) = "All"
          THEN IF input \in {"Music", "Game", "LineIn", "System"}
               THEN GainHardTuneAll ELSE 0
          ELSE IF input = get_active_hardtune_source(d)
               THEN GainHardTuneAll ELSE 0
     ELSE IF o \in router THEN GainEnabled ELSE 0]

\* The row written for one side of an input: 0x20 for every enabled output,
\* and the hard-tune entry.
channel_routing_row(d, input, router) ==
  [o \in RouteDest |->
     IF o = "HardTune"
     THEN IF get_active_hardtune_source(d) = "All"
          THEN IF input \in {"Music", "Game", "LineIn", "System"}
               THEN GainHardTuneAll ELSE 0
          ELSE IF input = get_active_hardtune_source(d)
               THEN GainHardTuneSingle ELSE 0
     ELSE IF o \in router THEN GainEnabled ELSE 0]

apply_channel_routing(d, input, router) ==
  LET row == channel_routing_row(d, input, router)
      d1  == goxlr_set_routing(d, input, "left", row)
  IN  goxlr_set_routing(d1, input, "right", row)

apply_transient_channel_routing(muted_to_x, muted_to_all, mute_function, router) ==
  IF ~muted_to_x \/ muted_to_all \/ mute_function = "All" THEN router
  ELSE CASE mute_function = "ToStream"    -> router \ {"BroadcastMix"}
         [] mute_function = "ToVoiceChat" -> router \ {"ChatMic"}
         [] mute_function = "ToPhones"    -> router \ {"Headphones"}
         [] mute_function = "ToLineOut"   -> router \ {"LineOut"}
         [] OTHER -> router

apply_transient_fader_routing(d, fader, router) ==
  LET s == get_mute_button_state(d, fader)
  IN  apply_transient_channel_routing(s.muted_to_x, s.muted_to_all, s.mute_function, router)

apply_transient_cough_routing(d, router) ==
  LET s == get_mute_chat_button_state(d)
  IN  apply_transient_channel_routing(s.muted_to_x, s.muted_to_all, s.mute_function, router)

\* BasicInputDevice -> ChannelName
input_channel_name(input) ==
  CASE input = "Microphone" -> "Mic"  [] input = "Chat" -> "Chat"
    [] input = "Music" -> "Music"     [] input = "Game" -> "Game"
    [] input = "Console" -> "Console" [] input = "LineIn" -> "LineIn"
    [] input = "System" -> "System"   [] input = "Samples" -> "Sample"

RECURSIVE transient_fader_loop(_, _, _, _)
transient_fader_loop(d, channel_name, fader, router) ==
  IF fader > 3 THEN router
  ELSE transient_fader_loop(d, channel_name, fader + 1,
         IF get_fader_assignment(d, fader) = channel_name
         THEN apply_transient_fader_routing(d, fader, router) ELSE router)

apply_transient_routing(d, input, router) ==
  apply_transient_cough_routing(d,
    transient_fader_loop(d, input_channel_name(input), 0, router))

apply_routing(d, input) ==
  apply_channel_routing(d, input, apply_transient_routing(d, input, get_router(d, input)))

-----------------------------------------------------------------------------
(* Device controller: mute resolution                                      *)

mic_muted_by_fader(d) ==
  LET mic_fader_id == get_mic_fader_id(d)
  IN  IF mic_fader_id = NoMicFader THEN FALSE
      ELSE LET s == get_mute_button_state(d, mic_fader_id)
           IN  s.muted_to_all \/ (s.muted_to_x /\ s.mute_function = "All")

\* A test that never finds the microphone muted by the cough button.
mic_muted_by_cough_never(d) == FALSE

mic_muted_by_cough(d) ==
  LET s == get_mute_chat_button_state(d)
  IN  s.muted_to_all \/ (s.muted_to_x /\ s.mute_function = "All")

\* ChannelName -> Option<BasicInputDevice>
basic_input(channel) ==
  CASE channel = "Mic" -> "Microphone"  [] channel = "LineIn" -> "LineIn"
    [] channel = "Console" -> "Console" [] channel = "System" -> "System"
    [] channel = "Game" -> "Game"       [] channel = "Chat" -> "Chat"
    [] channel = "Sample" -> "Samples"  [] channel = "Music" -> "Music"
    [] OTHER -> "None"

\* handle_fader_mute: `held || (!muted_to_x && mute_function == All)'
fader_mute_to_all(d, fader, held) ==
  LET channel        == get_fader_assignment(d, fader)
      current_volume == get_channel_volume(d, channel)
      s              == get_mute_button_state(d, fader)
  IN  IF held /\ s.muted_to_all THEN d
      ELSE LET d1 == set_mute_button(d, fader, "previous_volume", current_volume)
               d2 == goxlr_set_volume(d1, channel, 0)
               d3 == goxlr_set_channel_state(d2, channel, "Muted")
               d4 == set_mute_button(d3, fader, "state", TRUE)
               d5 == IF held THEN set_mute_button(d4, fader, "blink", TRUE) ELSE d4
           IN  set_channel_volume(d5, channel, 0)

\* handle_fader_mute: `!held && muted_to_x'
\* A release that writes back the stored volume instead of previous_volume.
fader_unmute_current(d, fader) ==
  LET channel == get_fader_assignment(d, fader)
      d1      == set_mute_button(d, fader, "state", FALSE)
      d2      == set_mute_button(d1, fader, "blink", FALSE)
      d3      == goxlr_set_volume(d2, channel, get_channel_volume(d2, channel))
  IN  goxlr_set_channel_state(d3, channel, "Unmuted")

fader_unmute(d, fader) ==
  LET channel == get_fader_assignment(d, fader)
      s       == get_mute_button_state(d, fader)
      d1      == set_mute_button(d, fader, "state", FALSE)
      d2      == set_mute_button(d1, fader, "blink", FALSE)
  IN  IF s.muted_to_all \/ s.mute_function = "All"
      THEN LET previous_volume == d2.profile.mute_buttons[fader].previous_volume
               d3 == goxlr_set_volume(d2, channel, previous_volume)
               d4 == set_channel_volume(d3, channel, previous_volume)
           IN  IF channel # "Mic" \/ (channel = "Mic" /\ ~mic_muted_by_cough(d4))
               THEN goxlr_set_channel_state(d4, channel, "Unmuted")
               ELSE d4
      ELSE IF basic_input(channel) # "None"
           THEN apply_routing(d2, basic_input(channel))
           ELSE d2

\* handle_fader_mute: `!held && !muted_to_x && mute_function != All'
fader_mute_to_x(d, fader) ==
  LET channel == get_fader_assignment(d, fader)
      d1      == set_mute_button(d, fader, "state", TRUE)
  IN  IF basic_input(channel) # "None"
      THEN apply_routing(d1, basic_input(channel))
      ELSE d1

handle_fader_mute(d0, fader, held) ==
  LET d == Note(d0, Ev("handle_fader_mute", IF held THEN "held" ELSE "tap", fader))
      s == get_mute_button_state(d, fader)
  IN  IF d.err THEN d
      ELSE IF held \/ (~s.muted_to_x /\ s.mute_function = "All")
           THEN fader_mute_to_all(d, fader, held)
      ELSE IF ~held /\ s.muted_to_x THEN fader_unmute(d, fader)
      ELSE IF ~held /\ ~s.muted_to_x /\ s.mute_function # "All"
           THEN fader_mute_to_x(d, fader)
      ELSE d

unmute_if_muted(d, fader) ==
  LET s == get_mute_button_state(d, fader)
  IN  IF s.muted_to_x \/ s.muted_to_all THEN handle_fader_mute(d, fader, FALSE) ELSE d

\* handle_cough_mute: `if press'
cough_press(d) ==
  LET s == get_mute_chat_button_state(d)
  IN  IF s.mute_toggle THEN d
      ELSE LET d1 == set_mute_chat_button(d, "state", TRUE)
           IN  IF s.mute_function = "All"
               THEN goxlr_set_channel_state(d1, "Mic", "Muted")
               ELSE apply_routing(d1, "Microphone")

\* A hold of the cough button that is ignored in toggle mode too.
cough_held_ignored(d) == d

\* handle_cough_mute: `if held'
cough_held(d) ==
  LET s == get_mute_chat_button_state(d)
  IN  IF ~s.mute_toggle THEN d
      ELSE LET d1 == set_mute_chat_button(d, "state", TRUE)
               d2 == set_mute_chat_button(d1, "blink", TRUE)
               d3 == goxlr_set_channel_state(d2, "Mic", "Muted")
           IN  apply_routing(d3, "Microphone")

\* handle_cough_mute: `if release', toggle mode
cough_release_toggle(d, held_called) ==
  LET s == get_mute_chat_button_state(d)
  IN  IF held_called THEN d
      ELSE IF s.muted_to_x \/ s.muted_to_all
      THEN LET d1 == set_mute_chat_button(d, "state", FALSE)
               d2 == set_mute_chat_button(d1, "blink", FALSE)
               d3 == IF (s.muted_to_all \/ (s.muted_to_x /\ s.mute_function = "All"))
                        /\ ~mic_muted_by_fader(d2)
                     THEN goxlr_set_channel_state(d2, "Mic", "Unmuted")
                     ELSE d2
           IN  IF s.muted_to_x /\ s.mute_function # "All"
               THEN apply_routing(d3, "Microphone")
               ELSE d3
      ELSE LET d1 == set_mute_chat_button(d, "state", TRUE)
           IN  IF s.mute_function = "All"
               THEN goxlr_set_channel_state(d1, "Mic", "Muted")
               ELSE apply_routing(d1, "Microphone")

\* handle_cough_mute: `if release', press-and-hold mode
cough_release_hold(d) ==
  LET s  == get_mute_chat_button_state(d)
      d1 == set_mute_chat_button(d, "state", FALSE)
  IN  IF s.mute_function = "All"
      THEN IF ~mic_muted_by_fader(d1)
           THEN goxlr_set_channel_state(d1, "Chat", "Unmuted")
           ELSE d1
      ELSE apply_routing(d1, "Microphone")

handle_cough_mute(d0, press, release, held, held_called) ==
  LET d == Note(d0, Ev("handle_cough_mute",
                       IF press THEN "press" ELSE IF held THEN "held" ELSE "release",
                       IF held_called THEN 1 ELSE 0))
      s == get_mute_chat_button_state(d)
  IN  IF d.err THEN d
      ELSE IF press THEN cough_press(d)
      ELSE IF held THEN cough_held(d)
      ELSE IF release
           THEN IF s.mute_toggle THEN cough_release_toggle(d, held_called)
                ELSE cough_release_hold(d)
      ELSE d

unmute_chat_if_muted(d) ==
  LET s == get_mute_chat_button_state(d)
  IN  IF s.muted_to_x \/ s.muted_to_all
      THEN handle_cough_mute(d, TRUE, FALSE, FALSE, FALSE)
      ELSE d

handle_swear_button(d, press) == set_swear_button_on(d, press)

apply_mute_from_profile(d, fader) ==
  LET channel == get_fader_assignment(d, fader)
      s       == get_mute_button_state(d, fader)
      d1      == IF s.muted_to_all \/ (s.muted_to_x /\ s.mute_function = "All")
                 THEN goxlr_set_channel_state(d, channel, "Muted")
                 ELSE d
  IN  goxlr_set_channel_state(d1, channel, "Unmuted")

apply_cough_from_profile(d) ==
  LET s == get_mute_chat_button_state(d)
  IN  IF ~s.mute_toggle /\ s.muted_to_x
      THEN set_mute_chat_button(set_mute_chat_button(d, "state", FALSE), "blink", FALSE)
      ELSE IF s.muted_to_all \/ (s.muted_to_x /\ s.mute_function = "All")
           THEN goxlr_set_channel_state(d, "Mic", "Muted")
           ELSE d

-----------------------------------------------------------------------------
(* Device controller: fader reassignment                                   *)

\* A search that never finds the new channel on another fader.
fader_to_switch_none(d, fader, new_channel) == NoMicFader

\* `for fader_name in FaderName::iter()': the last other fader bound to new_channel
fader_to_switch(d, fader, new_channel) ==
  LET bound == {f \in FaderName : f # fader /\ get_fader_assignment(d, f) = new_channel}
  IN  IF bound = {} THEN NoMicFader
      ELSE CHOOSE f \in bound : \A g \in bound : g <= f

set_fader(d, fader, new_channel) ==
  LET existing_channel == get_fader_assignment(d, fader)
      other == fader_to_switch(d, fader, new_channel)
  IN  IF d.err THEN d
      ELSE IF new_channel = existing_channel
      THEN \* the new channel is already on this fader
           goxlr_set_fader(IF new_channel = "Mic" THEN set_mic_fader_id(d, fader) ELSE d,
                           fader, new_channel)
      ELSE IF other = NoMicFader
      THEN \* the new channel is bound to no fader
           LET d1 == IF get_mute_button_state(d, fader).muted_to_x
                     THEN handle_fader_mute(d, fader, FALSE) ELSE d
               d2 == IF existing_channel = "Mic" THEN set_mic_fader_id(d1, NoMicFader) ELSE d1
           IN  goxlr_set_fader(set_fader_assignment(d2, fader, new_channel),
                               fader, new_channel)
      ELSE \* the new channel is bound to another fader: the two are switched
           LET d1 == switch_fader_assignment(d, fader, other)
               d2 == IF new_channel = "Mic" THEN set_mic_fader_id(d1, fader) ELSE d1
               d3 == IF existing_channel = "Mic" THEN set_mic_fader_id(d2, other) ELSE d2
               d4 == goxlr_set_fader(d3, fader, new_channel)
           IN  update_button_states(goxlr_set_fader(d4, other, existing_channel))

-----------------------------------------------------------------------------
(* Mic Profile Store: MicProfileAdapter                                     *)

EqFrequencies == {"Equalizer31Hz", "Equalizer63Hz", "Equalizer125Hz", "Equalizer250Hz",
                  "Equalizer500Hz", "Equalizer1KHz", "Equalizer2KHz", "Equalizer4KHz",
                  "Equalizer8KHz", "Equalizer16KHz"}

MiniEqFrequencies == {"Equalizer90Hz", "Equalizer250Hz", "Equalizer500Hz",
                      "Equalizer1KHz", "Equalizer3KHz", "Equalizer8KHz"}

\* MicrophoneType `as usize': Dynamic, Condenser, Jack
MicrophoneType == 0 .. 2

GATE_ATTENUATION ==
  <<-6, -7, -8, -9, -10, -11, -12, -13, -14, -15, -16, -17, -18, -19, -20, -21, -22,
    -23, -24, -25, -26, -27, -28, -30, -32, -61>>

\* `value as f32 * 0.24' truncated by `as usize': for every u8 the f32 product
\* truncates to the same integer as value * 24 / 100.
gate_attenuation_index(value) == (value * 24) \div 100

\* The mapping with the last entry kept for percentages above 100.
gate_attenuation_above_100(value) ==
  IF value > 100 THEN GATE_ATTENUATION[25 + 1]
  ELSE GATE_ATTENUATION[gate_attenuation_index(value) + 1]

\* Sequences are indexed from 1 here and from 0 in the code.
gate_attenuation_from_percent(value) ==
  IF value > 99 THEN GATE_ATTENUATION[25 + 1]
  ELSE GATE_ATTENUATION[gate_attenuation_index(value) + 1]

\* The range a frequency of the full equaliser must lie in.
eq_freq_range(freq) ==
  IF freq \in {"Equalizer31Hz", "Equalizer63Hz", "Equalizer125Hz", "Equalizer250Hz"}
  THEN <<30, 300>>
  ELSE IF freq \in {"Equalizer500Hz", "Equalizer1KHz", "Equalizer2KHz"}
       THEN <<300, 2000>>
       ELSE <<2000, 18000>>

\* A set_eq_freq that checks every band against the whole spectrum.
set_eq_freq_any_band(d, freq, value) ==
  IF value < 30 \/ value > 18000
  THEN Fail(d, "Frequency out of range")
  ELSE Step(d, [d EXCEPT !.mic_profile.eq_freq[freq] = value])

\* set_eq_freq returns Err and leaves the store alone outside the range.
set_eq_freq(d, freq, value) ==
  IF value < eq_freq_range(freq)[1] \/ value > eq_freq_range(freq)[2]
  THEN Fail(d, "Frequency out of range")
  ELSE Step(d, [d EXCEPT !.mic_profile.eq_freq[freq] = value])

set_eq_gain(d, gain, value) == Step(d, [d EXCEPT !.mic_profile.eq_gain[gain] = value])

set_mini_eq_gain(d, gain, value) ==
  Step(d, [d EXCEPT !.mic_profile.mini_gain[gain] = value])

set_mini_eq_freq(d, freq, value) ==
  Step(d, [d EXCEPT !.mic_profile.mini_freq[freq] = value])

set_mic_type(d, mic_type) == Step(d, [d EXCEPT !.mic_profile.mic_type = mic_type])

\* A setter that writes the gain of every microphone type.
set_mic_gain_all(d, mic_type, gain) ==
  Step(d, [d EXCEPT !.mic_profile.mic_gains = [t \in DOMAIN @ |-> gain]])

set_mic_gain(d, mic_type, gain) ==
  Step(d, [d EXCEPT !.mic_profile.mic_gains[mic_type] = gain])

\* A gate setter that leaves the store as it is.
set_gate_unstored(d, field, value) == d

\* set_gate_threshold, set_gate_attenuation, set_gate_attack, set_gate_release
\* and set_gate_active (field enabled)
set_gate(d, field, value) == Step(d, [d EXCEPT !.mic_profile.gate[field] = value])

\* set_compressor_threshold, _ratio, _attack, _release and _makeup
set_compressor(d, field, value) ==
  Step(d, [d EXCEPT !.mic_profile.compressor[field] = value])

\* settings.get_device_bleep_volume(serial): Option<i8>, a set of at most one value
get_device_bleep_volume(d) == d.settings.bleep_volume

unwrap_or(option, default) == IF option = {} THEN default ELSE CHOOSE v \in option : TRUE

\* Device::get_bleep_volume: the bleep volume that status() reports
get_bleep_volume(d) == unwrap_or(get_device_bleep_volume(d), DefaultBleepStatus)

\* The gain or frequency key of a band, in MicrophoneParamKey (mini EQ) and
\* in EffectKey (full EQ): the band's name followed by "Gain" or "Frequency".
EqKey(f, part) == f \o part

MicrophoneParamKey ==
  {"MicType", "DynamicGain", "CondenserGain", "JackGain", "GateThreshold", "GateAttack",
   "GateRelease", "GateAttenuation", "CompressorThreshold", "CompressorRatio",
   "CompressorAttack", "CompressorRelease", "CompressorMakeUpGain", "BleepLevel"}
  \cup {EqKey(f, "Gain") : f \in MiniEqFrequencies}
  \cup {EqKey(f, "Frequency") : f \in MiniEqFrequencies}

\* MicrophoneType::get_gain_param
get_gain_param(mic_type) ==
  CASE mic_type = 0 -> "DynamicGain" [] mic_type = 1 -> "CondenserGain" [] OTHER -> "JackGain"

\* The four bytes of a parameter, as the number they encode: an f32
\* (write_f32), a u16 in the upper half (gain_value), or the phantom-power flag.
get_param_value(d, param) ==
  LET m == d.mic_profile
  IN  CASE param = "MicType" -> <<"flag", IF m.mic_type = 1 THEN 1 ELSE 0>>
        [] param = "DynamicGain" -> <<"u16", m.mic_gains[0]>>
        [] param = "CondenserGain" -> <<"u16", m.mic_gains[1]>>
        [] param = "JackGain" -> <<"u16", m.mic_gains[2]>>
        [] param = "GateThreshold" -> <<"f32", m.gate.threshold>>
        [] param = "GateAttack" -> <<"f32", m.gate.attack>>
        [] param = "GateRelease" -> <<"f32", m.gate.release>>
        [] param = "GateAttenuation" ->
             <<"f32", gate_attenuation_from_percent(m.gate.attenuation)>>
        [] param = "CompressorThreshold" -> <<"f32", m.compressor.threshold>>
        [] param = "CompressorRatio" -> <<"f32", m.compressor.ratio>>
        [] param = "CompressorAttack" -> <<"f32", m.compressor.ratio>>
        [] param = "CompressorRelease" -> <<"f32", m.compressor.release>>
        [] param = "CompressorMakeUpGain" -> <<"f32", m.compressor.makeup>>
        [] param = "BleepLevel" ->
             <<"f32", unwrap_or(get_device_bleep_volume(d), DefaultBleepEffect) * 65536>>
        [] param \in {EqKey(f, "Frequency") : f \in MiniEqFrequencies} ->
             <<"f32", m.mini_freq[CHOOSE f \in MiniEqFrequencies :
                                    EqKey(f, "Frequency") = param]>>
        [] param \in {EqKey(f, "Gain") : f \in MiniEqFrequencies} ->
             <<"f32", m.mini_gain[CHOOSE f \in MiniEqFrequencies : EqKey(f, "Gain") = param]>>

-----------------------------------------------------------------------------
(* Effect and microphone parameter dispatch                                *)

goxlr_set_mic_param(d, kv) ==
  HwCall(d, EvKV("set_mic_param", kv),
         [d.goxlr EXCEPT !.mic_params =
            [k \in DOMAIN @ \cup {p[1] : p \in kv} |->
               IF \E p \in kv : p[1] = k THEN (CHOOSE p \in kv : p[1] = k)[2] ELSE @[k]]])

goxlr_set_effect_values(d, kv) ==
  HwCall(d, EvKV("set_effect_values", kv),
         [d.goxlr EXCEPT !.effects =
            [k \in DOMAIN @ \cup {p[1] : p \in kv} |->
               IF \E p \in kv : p[1] = k THEN (CHOOSE p \in kv : p[1] = k)[2] ELSE @[k]]])

goxlr_set_microphone_gain(d, mic_type, gain) ==
  HwCall(d, Ev("set_microphone_gain", "", gain),
         [d.goxlr EXCEPT !.mic_gain = <<mic_type, gain>>])

\* `value as u8' / the i8 the device reports
U8(x) == x % 256

I8(x) == ((x + 128) % 256) - 128

goxlr_set_encoder_value(d, encoder, value) ==
  HwCall(d, Ev("set_encoder_value", encoder, value),
         [d.goxlr EXCEPT !.encoders[encoder] = value])

goxlr_set_encoder_mode(d, encoder, mode, resolution) ==
  HwCall(d, Ev("set_encoder_mode", encoder, mode),
         [d.goxlr EXCEPT !.encoder_mode = <<mode, resolution>>])

get_reverb_keyset ==
  {"ReverbAmount", "ReverbDecay", "ReverbEarlyLevel", "ReverbTailLevel", "ReverbPredelay",
   "ReverbLoColor", "ReverbHiColor", "ReverbHiFactor", "ReverbDiffuse", "ReverbModSpeed",
   "ReverbModDepth", "ReverbStyle"}

get_echo_keyset ==
  {"EchoAmount", "EchoFeedback", "EchoTempo", "EchoDelayL", "EchoDelayR", "EchoFeedbackL",
   "EchoFeedbackR", "EchoXFBLtoR", "EchoXFBRtoL", "EchoSource", "EchoDivL", "EchoDivR",
   "EchoFilterStyle"}

get_pitch_keyset == {"PitchAmount", "PitchThreshold", "PitchCharacter"}

get_gender_keyset == {"GenderAmount"}

get_megaphone_keyset ==
  {"MegaphoneAmount", "MegaphonePostGain", "MegaphoneStyle", "MegaphoneHP", "MegaphoneLP",
   "MegaphonePreGain", "MegaphoneDistType", "MegaphonePresenceGain", "MegaphonePresenceFC",
   "MegaphonePresenceBW", "MegaphoneBeatboxEnable", "MegaphoneFilterControl",
   "MegaphoneFilter", "MegaphoneDrivePotGainCompMid", "MegaphoneDrivePotGainCompMax"}

get_robot_keyset ==
  {"RobotLowGain", "RobotLowFreq", "RobotLowWidth", "RobotMidGain", "RobotMidFreq",
   "RobotMidWidth", "RobotHiGain", "RobotHiFreq", "RobotHiWidth", "RobotWaveform",
   "RobotPulseWidth", "RobotThreshold", "RobotDryMix", "RobotStyle"}

get_hardtune_keyset ==
  {"HardTuneAmount", "HardTuneKeySource", "HardTuneScale", "HardTunePitchAmount",
   "HardTuneRate", "HardTuneWindow"}

get_common_keys ==
  {"DeEsser", "GateThreshold", "GateAttack", "GateRelease", "GateAttenuation",
   "CompressorThreshold", "CompressorRatio", "CompressorAttack", "CompressorRelease",
   "CompressorMakeUpGain", "GateEnabled", "BleepLevel", "GateMode", "DisableMic",
   "Encoder1Enabled", "Encoder2Enabled", "Encoder3Enabled", "Encoder4Enabled",
   "RobotEnabled", "HardTuneEnabled", "MegaphoneEnabled"}

EffectKey ==
  get_common_keys \cup get_reverb_keyset \cup get_echo_keyset \cup get_pitch_keyset
  \cup get_gender_keyset \cup get_megaphone_keyset \cup get_robot_keyset
  \cup get_hardtune_keyset \cup {"Unknown14b"}
  \cup {EqKey(f, "Gain") : f \in EqFrequencies}
  \cup {EqKey(f, "Frequency") : f \in EqFrequencies}

get_full_keys == EffectKey \ get_common_keys

\* eq_*_freq_as_goxlr: the device code of a frequency, from a table of the
\* profile loader; the code of hz is kept as the pair <<"goxlr", hz>>.
freq_as_goxlr(hz) == <<"goxlr", hz>>

Bool2Int(b) == IF b THEN 1 ELSE 0

get_effect_value(d, effect) ==
  LET m == d.mic_profile
      a == active_effects(d)
  IN  CASE effect = "DisableMic" -> 0
        [] effect = "BleepLevel" -> unwrap_or(get_device_bleep_volume(d), DefaultBleepEffect)
        [] effect = "GateMode" -> 2
        [] effect = "GateEnabled" -> 1
        [] effect = "GateThreshold" -> m.gate.threshold
        [] effect = "GateAttenuation" -> gate_attenuation_from_percent(m.gate.attenuation)
        [] effect = "GateAttack" -> m.gate.attack
        [] effect = "GateRelease" -> m.gate.release
        [] effect = "Unknown14b" -> 0
        [] effect \in {EqKey(f, "Frequency") : f \in EqFrequencies} ->
             freq_as_goxlr(m.eq_freq[CHOOSE f \in EqFrequencies :
                                       EqKey(f, "Frequency") = effect])
        [] effect \in {EqKey(f, "Gain") : f \in EqFrequencies} ->
             m.eq_gain[CHOOSE f \in EqFrequencies : EqKey(f, "Gain") = effect]
        [] effect = "CompressorThreshold" -> m.compressor.threshold
        [] effect = "CompressorRatio" -> m.compressor.ratio
        [] effect = "CompressorAttack" -> m.compressor.attack
        [] effect = "CompressorRelease" -> m.compressor.release
        [] effect = "CompressorMakeUpGain" -> m.compressor.makeup
        [] effect = "DeEsser" -> m.deess
        [] effect = "ReverbAmount" -> a.reverb
        [] effect = "ReverbTailLevel" -> 0
        [] effect = "EchoAmount" -> a.echo
        [] effect = "PitchAmount" -> a.pitch
        [] effect = "GenderAmount" -> a.gender
        [] effect = "HardTuneKeySource" -> 0
        [] effect = "RobotEnabled" -> Bool2Int(a.robot)
        [] effect = "MegaphoneEnabled" -> Bool2Int(a.megaphone)
        [] effect = "HardTuneEnabled" -> Bool2Int(a.hardtune)
        [] effect \in {"Encoder1Enabled", "Encoder2Enabled", "Encoder3Enabled",
                       "Encoder4Enabled"} -> Bool2Int(d.profile.fx_enabled)
        \* every other key is a parameter of the selected bank's preset
        [] OTHER -> a.preset

apply_mic_params(d, params) ==
  goxlr_set_mic_param(d, {<<k, get_param_value(d, k)>> : k \in params})

apply_effects(d, params) ==
  goxlr_set_effect_values(d, {<<k, get_effect_value(d, k)>> : k \in params})

apply_mic_gain(d) ==
  goxlr_set_microphone_gain(d, d.mic_profile.mic_type,
                            d.mic_profile.mic_gains[d.mic_profile.mic_type])

load_effects(d) ==
  LET d1 == goxlr_set_encoder_value(d, "Pitch", U8(get_encoder_value(d, "pitch")))
      d2 == goxlr_set_encoder_value(d1, "Echo", U8(get_encoder_value(d1, "echo")))
      d3 == goxlr_set_encoder_value(d2, "Gender", U8(get_encoder_value(d2, "gender")))
  IN  goxlr_set_encoder_value(d3, "Reverb", U8(get_encoder_value(d3, "reverb")))

set_pitch_mode(d) ==
  IF d.goxlr.device_type # "Full" THEN d
  ELSE IF is_hardtune_pitch_enabled(d)
       THEN IF is_pitch_narrow(d)
            THEN goxlr_set_encoder_mode(d, "Pitch", 3, 1)
            ELSE goxlr_set_encoder_mode(d, "Pitch", 3, 2)
       ELSE goxlr_set_encoder_mode(d, "Pitch", 1, 4)

load_effect_bank(d, preset) ==
  LET d1 == Step(d, [d EXCEPT !.profile.effect_bank = preset])
      d2 == load_effects(d1)
      d3 == set_pitch_mode(d2)
  IN  apply_effects(d3, get_reverb_keyset \cup get_echo_keyset \cup get_pitch_keyset
                        \cup get_gender_keyset \cup get_megaphone_keyset
                        \cup get_robot_keyset \cup get_hardtune_keyset)

toggle_megaphone(d) == apply_effects(profile_toggle(d, "megaphone"), {"MegaphoneEnabled"})

toggle_robot(d) == apply_effects(profile_toggle(d, "robot"), {"RobotEnabled"})

toggle_hardtune(d) ==
  set_pitch_mode(apply_effects(profile_toggle(d, "hardtune"), {"HardTuneEnabled"}))

toggle_effects(d) ==
  apply_effects(Step(d, [d EXCEPT !.profile.fx_enabled = ~@]),
                {"Encoder1Enabled", "Encoder2Enabled", "Encoder3Enabled", "Encoder4Enabled",
                 "MegaphoneEnabled", "HardTuneEnabled", "RobotEnabled"})

load_sample_bank(d, bank) == Step(d, [d EXCEPT !.profile.sample_bank = bank])

\* The colour map itself is not modelled: the call is one hardware write.
load_colour_map(d) == HwCall(d, Ev("set_button_colours", "", 0), d.goxlr)

set_fader_display_from_profile(d, fader) ==
  HwCall(d, Ev("set_fader_display_mode", "", fader), d.goxlr)

\* SampleButtons of a sampler pad button
sample_button_of(button) ==
  CASE button = "SamplerTopLeft" -> "TopLeft" [] button = "SamplerTopRight" -> "TopRight"
    [] button = "SamplerBottomLeft" -> "BottomLeft" [] OTHER -> "BottomRight"

handle_sample_button(d, button) ==
  IF d.err THEN d
  ELSE IF ~d.audio.present THEN Fail(d, "Not handling button, audio handler not configured.")
  ELSE IF ~current_sample_bank_has_samples(d, button) THEN d
  ELSE IF get_sample_file(d, button) \notin d.settings.sample_files
       THEN Fail(d, "Sample File does not exist!")
  ELSE set_sample_button_state(
         [d EXCEPT !.audio.playing = @ \cup {button},
                   !.log = Append(@, Ev("play_for_button", button, 0))],
         button, TRUE)

\* `for button in SampleButtons::iter()': a sample that stopped playing loses its light
sync_sample_lighting(d) ==
  IF ~d.audio.present THEN d
  ELSE LET stopped == {b \in SampleButtons : is_sample_active(d, b) /\ b \notin d.audio.playing}
           d1 == Step(d, [d EXCEPT !.profile.sample_active = @ \ stopped])
       IN  IF stopped # {} THEN update_button_states(d1) ELSE d1

-----------------------------------------------------------------------------
(* Device controller: the polling loop                                     *)

\* The buttons in the order EnumSet iterates them.
ButtonOrder ==
  <<"Fader1Mute", "Fader2Mute", "Fader3Mute", "Fader4Mute", "Bleep", "MicrophoneMute",
    "EffectSelect1", "EffectSelect2", "EffectSelect3", "EffectSelect4", "EffectSelect5",
    "EffectSelect6", "EffectFx", "EffectMegaphone", "EffectRobot", "EffectHardTune",
    "SamplerSelectA", "SamplerSelectB", "SamplerSelectC", "SamplerTopLeft",
    "SamplerTopRight", "SamplerBottomLeft", "SamplerBottomRight", "SamplerClear">>

fader_of_button(button) ==
  CASE button = "Fader1Mute" -> 0 [] button = "Fader2Mute" -> 1
    [] button = "Fader3Mute" -> 2 [] button = "Fader4Mute" -> 3

RECURSIVE update_volumes_loop(_, _, _)
update_volumes_loop(d, volumes, fader) ==
  IF fader > 3 THEN d
  ELSE LET channel == get_fader_assignment(d, fader)
           old_volume == get_channel_volume(d, channel)
           new_volume == volumes[fader]
       IN  update_volumes_loop(
             IF new_volume # old_volume THEN set_channel_volume(d, channel, new_volume) ELSE d,
             volumes, fader + 1)

\* A reconciliation that keeps the stored volumes.
update_volumes_to_kept(d, volumes) == d

update_volumes_to(d, volumes) == update_volumes_loop(d, volumes, 0)

\* i8 division by 2, rounding towards zero
HalveI8(x) == IF x >= 0 THEN x \div 2 ELSE -((-x) \div 2)

\* the pitch the encoder position stands for (i8 arithmetic)
encoder_pitch_value(d, position) ==
  IF is_hardtune_pitch_enabled(d) THEN I8(position * 12)
  ELSE IF is_pitch_narrow(d) THEN HalveI8(position)
  ELSE position

\* one encoder of update_encoders_to: a changed value is stored and pushed
update_encoder_to(d, encoder, effect, value) ==
  IF value # get_encoder_value(d, encoder)
  THEN apply_effects(set_encoder_value(d, encoder, value), {effect}) ELSE d

update_encoders_to(d, encoders) ==
  Then(update_encoder_to(d, "pitch", "PitchAmount",
                         encoder_pitch_value(d, encoders["Pitch"])), LAMBDA d1 :
  Then(update_encoder_to(d1, "gender", "GenderAmount", encoders["Gender"]), LAMBDA d2 :
  Then(update_encoder_to(d2, "reverb", "ReverbAmount", encoders["Reverb"]), LAMBDA d3 :
  update_encoder_to(d3, "echo", "EchoAmount", encoders["Echo"]))))

on_button_down(d0, button) ==
  LET d  == Note(d0, Ev("on_button_down", button, 0))
      d1 == CASE button = "MicrophoneMute" -> handle_cough_mute(d, TRUE, FALSE, FALSE, FALSE)
              [] button = "Bleep" -> handle_swear_button(d, TRUE)
              [] OTHER -> d
  IN  update_button_states(d1)

on_button_hold(d0, button) ==
  LET d  == Note(d0, Ev("on_button_hold", button, 0))
      d1 == CASE button \in FaderMuteButtons ->
                   handle_fader_mute(d, fader_of_button(button), TRUE)
              [] button = "MicrophoneMute" -> handle_cough_mute(d, FALSE, FALSE, TRUE, FALSE)
              [] OTHER -> d
  IN  update_button_states(d1)



\* A button-up handler that does not skip the release ending a hold.
on_button_up_after_hold(d0, button, state) ==
  LET d == Note(d0, Ev("on_button_up", button, IF state.hold_handled THEN 1 ELSE 0))
  IN  update_button_states(IF button \in FaderMuteButtons
                           THEN handle_fader_mute(d, fader_of_button(button), FALSE)
                           ELSE d)

on_button_up(d0, button, state) ==
  LET d  == Note(d0, Ev("on_button_up", button, IF state.hold_handled THEN 1 ELSE 0))
      d1 == CASE button \in FaderMuteButtons ->
                   IF ~state.hold_handled
                   THEN handle_fader_mute(d, fader_of_button(button), FALSE) ELSE d
              [] button = "MicrophoneMute" ->
                   handle_cough_mute(d, FALSE, TRUE, FALSE, state.hold_handled)
              [] button = "Bleep" -> handle_swear_button(d, FALSE)
              [] button \in EffectSelectButtons -> load_effect_bank(d, effect_preset_of(button))
              [] button = "EffectMegaphone" -> toggle_megaphone(d)
              [] button = "EffectRobot" -> toggle_robot(d)
              [] button = "EffectHardTune" -> toggle_hardtune(d)
              [] button = "EffectFx" -> toggle_effects(d)
              [] button \in SamplerSelectButtons ->
                   load_colour_map(load_sample_bank(d, sample_bank_of(button)))
              [] button \in SamplerPadButtons ->
                   handle_sample_button(d, sample_button_of(button))
              [] OTHER -> d
  IN  update_button_states(d1)

\* The members of a button set, in iteration order.
InOrder(buttons) == SelectSeq(ButtonOrder, LAMBDA b : b \in buttons)

\* `for button in pressed_buttons'
RECURSIVE pressed_loop(_, _, _)
pressed_loop(d, buttons, i) ==
  IF i > Len(buttons) THEN d
  ELSE Then(Swallow(on_button_down(
              [d EXCEPT !.button_states[buttons[i]] =
                 [press_time |-> d.now, hold_handled |-> FALSE]],
              buttons[i])),
            LAMBDA d2 : pressed_loop(d2, buttons, i + 1))

\* `for button in released_buttons'
RECURSIVE released_loop(_, _, _)
released_loop(d, buttons, i) ==
  IF i > Len(buttons) THEN d
  ELSE Then(Swallow(on_button_up(d, buttons[i], d.button_states[buttons[i]])),
            LAMBDA d1 :
              released_loop([d1 EXCEPT !.button_states[buttons[i]] =
                               [press_time |-> 0, hold_handled |-> FALSE]],
                            buttons, i + 1))

\* A hold test that forgets the hold was handled.
hold_due_again(d, button) ==
  (d.now - d.button_states[button].press_time) > HoldThreshold

\* The hold test of one pressed button.
hold_due(d, button) ==
  ~d.button_states[button].hold_handled
  /\ (d.now - d.button_states[button].press_time) > HoldThreshold

\* `for button in state.pressed'
RECURSIVE held_loop(_, _, _)
held_loop(d, buttons, i) ==
  IF i > Len(buttons) THEN d
  ELSE IF hold_due(d, buttons[i])
       THEN Then(Swallow(on_button_hold(d, buttons[i])),
                 LAMBDA d1 :
                   held_loop([d1 EXCEPT !.button_states[buttons[i]].hold_handled = TRUE],
                             buttons, i + 1))
       ELSE held_loop(d, buttons, i + 1)

\* `if let Ok(state) = self.goxlr.get_button_states()'
process_button_states(d, state) ==
  Then(update_encoders_to(update_volumes_to(d, state.volumes), state.encoders), LAMBDA d2 :
  Then(pressed_loop(d2, InOrder(state.pressed \ d2.last_buttons), 1), LAMBDA d3 :
  Then(released_loop(d3, InOrder(d3.last_buttons \ state.pressed), 1), LAMBDA d4 :
  Then(held_loop(d4, InOrder(state.pressed), 1), LAMBDA d5 :
  [d5 EXCEPT !.last_buttons = state.pressed]))))

\* AudioHandler::check_playing forgets the samples that finished playing.
check_playing(d, finished) == Step(d, [d EXCEPT !.audio.playing = @ \ finished])

\* A tick that goes on with a snapshot it could not read.
monitor_inputs_unguarded(d, state) ==
  Then(HwCall(d, Ev("usb_device_has_kernel_driver_active", "", 0), d.goxlr), LAMBDA d1 :
  Then(IF d1.audio.present
       THEN sync_sample_lighting(check_playing(d1, state.finished)) ELSE d1, LAMBDA d2 :
  Then(Note(d2, [Ev("get_button_states", "", 0) EXCEPT !.ok = state.ok]), LAMBDA d3 :
  process_button_states(d3, state))))

\* state.ok is FALSE when the snapshot cannot be read.
monitor_inputs(d, state) ==
  Then(HwCall(d, Ev("usb_device_has_kernel_driver_active", "", 0), d.goxlr), LAMBDA d1 :
  Then(IF d1.audio.present
       THEN sync_sample_lighting(check_playing(d1, state.finished)) ELSE d1, LAMBDA d2 :
  Then(Note(d2, [Ev("get_button_states", "", 0) EXCEPT !.ok = state.ok]), LAMBDA d3 :
  IF state.ok THEN process_button_states(d3, state) ELSE d3)))

-----------------------------------------------------------------------------
(* The profiles the daemon starts from                                     *)

\* The name under which the built-in profiles load when no file has it.
DEFAULT_PROFILE_NAME == "DEFAULT"

DEFAULT_MIC_PROFILE_NAME == "DEFAULT"

EffectBankPresets == {"Preset1", "Preset2", "Preset3", "Preset4", "Preset5", "Preset6"}

SampleBank == {"A", "B", "C"}

EncoderName == {"Pitch", "Gender", "Reverb", "Echo"}

\* A mute button that is off.
MuteButtonOff(mute_function) ==
  [state |-> FALSE, blink |-> FALSE, mute_function |-> mute_function, previous_volume |-> 0]

\* One bank of effect presets.
EffectBank(pitch, hardtune, narrow) ==
  [pitch |-> pitch, gender |-> 0, reverb |-> 0, echo |-> 0, narrow |-> narrow,
   hardtune |-> hardtune, megaphone |-> FALSE, robot |-> FALSE,
   hardtune_source |-> "All", preset |-> 0]

\* profiles/DEFAULT.goxlr: Mic, Chat, Music and System on the four faders,
\* every mute button muting to all, the cough button in press-and-hold mode.
DefaultProfile ==
  [name |-> DEFAULT_PROFILE_NAME,
   faders |-> [f \in FaderName |->
                 CASE f = 0 -> "Mic" [] f = 1 -> "Chat" [] f = 2 -> "Music" [] OTHER -> "System"],
   mute_buttons |-> [f \in FaderName |-> MuteButtonOff("All")],
   mute_chat |-> [toggle |-> FALSE, state |-> FALSE, blink |-> FALSE,
                  mute_function |-> "All", mic_fader_id |-> 0],
   volumes |-> [c \in ChannelName |-> MaxVolume],
   router |-> [i \in BasicInputDevice |->
                 IF i = "Microphone" THEN {"BroadcastMix", "ChatMic", "LineOut"}
                 ELSE IF i = "Chat" THEN {"Headphones", "BroadcastMix", "LineOut"}
                 ELSE {"Headphones", "BroadcastMix", "LineOut", "ChatMic"}],
   swear_on |-> FALSE,
   fx_enabled |-> FALSE,
   effect_bank |-> "Preset1",
   sample_bank |-> "A",
   sample_active |-> {},
   samples |-> [k \in SampleBank |->
                  [b \in SampleButtons |->
                     IF k = "A" /\ b = "TopLeft" THEN "clap.wav"
                     ELSE IF k = "A" /\ b = "TopRight" THEN "lost.wav" ELSE ""]],
   effects |-> [k \in EffectBankPresets |->
                  IF k = "Preset2" THEN EffectBank(1, TRUE, FALSE)
                  ELSE IF k = "Preset3" THEN EffectBank(-3, FALSE, TRUE)
                  ELSE EffectBank(0, FALSE, FALSE)]]

\* A profile a user saved while streaming: Music mutes to the stream, System
\* was muted to all by a hold of its button, the cough button toggles, mutes
\* to the phones and was held down to mute the microphone.
StreamProfile ==
  [DefaultProfile EXCEPT
     !.name = "Stream",
     !.mute_buttons[2] = MuteButtonOff("ToStream"),
     !.mute_buttons[3] = [state |-> TRUE, blink |-> TRUE, mute_function |-> "All",
                          previous_volume |-> 1],
     !.volumes["System"] = 0,
     !.mute_chat = [toggle |-> TRUE, state |-> TRUE, blink |-> TRUE,
                    mute_function |-> "ToPhones", mic_fader_id |-> 0]]

\* profiles/DEFAULT.goxlrMicProfile
DefaultMicProfile ==
  [name |-> DEFAULT_MIC_PROFILE_NAME,
   mic_type |-> 0,
   mic_gains |-> [t \in MicrophoneType |-> 0],
   gate |-> [threshold |-> -30, attenuation |-> 100, attack |-> 10, release |-> 200,
             enabled |-> TRUE],
   compressor |-> [threshold |-> 0, ratio |-> 0, attack |-> 1, release |-> 15, makeup |-> 0],
   eq_gain |-> [f \in EqFrequencies |-> 0],
   eq_freq |-> [f \in EqFrequencies |-> eq_freq_range(f)[1]],
   mini_gain |-> [f \in MiniEqFrequencies |-> 0],
   mini_freq |-> [f \in MiniEqFrequencies |-> 300],
   deess |-> 0]

\* A mic profile a user saved: a condenser microphone with its own gain.
StudioMicProfile ==
  [DefaultMicProfile EXCEPT !.name = "Studio", !.mic_type = 1, !.mic_gains[1] = 40,
                            !.compressor.attack = 2, !.compressor.ratio = 4]

\* The settings file and the profile directories when the daemon starts.
Settings0(profile_name, mic_profile_name) ==
  [bleep_volume |-> {},
   profile_name |-> profile_name,
   mic_profile_name |-> mic_profile_name,
   sample_files |-> {"clap.wav"},
   profile_files |-> [n \in {"Stream"} |-> StreamProfile],
   mic_profile_files |-> [n \in {"Studio"} |-> StudioMicProfile]]

\* The device as it is handed to Device::new, before any write.
Hardware0(device_type) ==
  [fader |-> DefaultProfile.faders,
   volume |-> [c \in ChannelName |-> 0],
   state |-> [c \in ChannelName |-> "Unmuted"],
   routing |-> [i \in BasicInputDevice |->
                  [left |-> [o \in RouteDest |-> 0], right |-> [o \in RouteDest |-> 0]]],
   buttons |-> [b \in Buttons |-> "DimmedColour1"],
   mic_params |-> [k \in {} |-> <<"f32", 0>>],
   effects |-> [k \in {} |-> 0],
   mic_gain |-> <<0, 0>>,
   encoders |-> [e \in EncoderName |-> 0],
   encoder_mode |-> <<0, 0>>,
   device_type |-> device_type]

-----------------------------------------------------------------------------
(* Profile files and the settings                                          *)

\* settings.save(): the settings file is rewritten
settings_save(d) == Note(d, Ev("settings.save", "", 0))

set_device_bleep_volume(d, volume) ==
  Step(d, [d EXCEPT !.settings.bleep_volume = {volume}])

set_device_profile_name(d, name) ==
  Step(d, [d EXCEPT !.settings.profile_name = {name}])

set_device_mic_profile_name(d, name) ==
  Step(d, [d EXCEPT !.settings.mic_profile_name = {name}])

\* ProfileAdapter::from_named: the file of that name in the profile
\* directory, else the built-in profile under the default name, else Err.
profile_from_named(d, name) ==
  IF name \in DOMAIN d.settings.profile_files
  THEN Step(d, [d EXCEPT !.profile = [d.settings.profile_files[name] EXCEPT !.name = name]])
  ELSE IF name = DEFAULT_PROFILE_NAME
       THEN Step(d, [d EXCEPT !.profile = DefaultProfile])
       ELSE Fail(d, "Profile does not exist")

\* A from_named that falls back to the built-in mic profile for any missing name.
mic_profile_from_named_lenient(d, name) ==
  IF name \in DOMAIN d.settings.mic_profile_files
  THEN Step(d, [d EXCEPT !.mic_profile =
                           [d.settings.mic_profile_files[name] EXCEPT !.name = name]])
  ELSE Step(d, [d EXCEPT !.mic_profile = DefaultMicProfile])

\* MicProfileAdapter::from_named
mic_profile_from_named(d, name) ==
  IF name \in DOMAIN d.settings.mic_profile_files
  THEN Step(d, [d EXCEPT !.mic_profile =
                           [d.settings.mic_profile_files[name] EXCEPT !.name = name]])
  ELSE IF name = DEFAULT_MIC_PROFILE_NAME
       THEN Step(d, [d EXCEPT !.mic_profile = DefaultMicProfile])
       ELSE Fail(d, "Mic profile does not exist")

\* f extended or overwritten at key k
Put(f, k, v) == [x \in DOMAIN f \cup {k} |-> IF x = k THEN v ELSE f[x]]

\* ProfileAdapter::write_profile
profile_write_profile(d, name, overwrite) ==
  IF ~overwrite /\ name \in DOMAIN d.settings.profile_files
  THEN Fail(d, "Profile exists, will not overwrite")
  ELSE Step(d, [d EXCEPT
         !.settings.profile_files = Put(@, name, [d.profile EXCEPT !.name = name]),
         !.profile.name = name,
         !.log = Append(@, Ev("profile.save", name, 0))])

\* A write_profile that overwrites whether or not it is told to.
mic_profile_write_profile_forced(d, name, overwrite) ==
  Step(d, [d EXCEPT
    !.settings.mic_profile_files = Put(@, name, [d.mic_profile EXCEPT !.name = name]),
    !.mic_profile.name = name,
    !.log = Append(@, Ev("mic_profile.save", name, 0))])

\* MicProfileAdapter::write_profile
mic_profile_write_profile(d, name, overwrite) ==
  IF ~overwrite /\ name \in DOMAIN d.settings.mic_profile_files
  THEN Fail(d, "Profile exists, will not overwrite")
  ELSE Step(d, [d EXCEPT
         !.settings.mic_profile_files = Put(@, name, [d.mic_profile EXCEPT !.name = name]),
         !.mic_profile.name = name,
         !.log = Append(@, Ev("mic_profile.save", name, 0))])

-----------------------------------------------------------------------------
(* Device controller: applying a profile                                   *)

RECURSIVE apply_profile_faders(_, _)
apply_profile_faders(d, fader) ==
  IF fader > 3 THEN d
  ELSE Then(apply_mute_from_profile(
              goxlr_set_fader(d, fader, get_fader_assignment(d, fader)), fader),
            LAMBDA d1 : apply_profile_faders(d1, fader + 1))

RECURSIVE apply_profile_displays(_, _)
apply_profile_displays(d, fader) ==
  IF fader > 3 THEN d
  ELSE Then(set_fader_display_from_profile(d, fader),
            LAMBDA d1 : apply_profile_displays(d1, fader + 1))

\* ChannelName::iter() and BasicInputDevice::iter(), in declaration order
ChannelOrder == <<"Mic", "LineIn", "Console", "System", "Game", "Chat", "Sample",
                  "Music", "Headphones", "MicMonitor", "LineOut">>

InputOrder == <<"Microphone", "Chat", "Music", "Game", "Console", "LineIn", "System",
                "Samples">>

RECURSIVE apply_profile_volumes(_, _)
apply_profile_volumes(d, i) ==
  IF i > Len(ChannelOrder) THEN d
  ELSE Then(goxlr_set_volume(d, ChannelOrder[i], get_channel_volume(d, ChannelOrder[i])),
            LAMBDA d1 : apply_profile_volumes(d1, i + 1))

RECURSIVE apply_profile_routing(_, _)
apply_profile_routing(d, i) ==
  IF i > Len(InputOrder) THEN d
  ELSE Then(apply_routing(d, InputOrder[i]), LAMBDA d1 : apply_profile_routing(d1, i + 1))

apply_profile(d) ==
  Then(apply_profile_faders(d, 0), LAMBDA d1 :
  Then(apply_profile_displays(load_colour_map(apply_cough_from_profile(d1)), 0), LAMBDA d3 :
  Then(apply_profile_volumes(d3, 1), LAMBDA d4 :
  apply_profile_routing(update_button_states(d4), 1))))

\* `if self.hardware.device_type == DeviceType::Full'
apply_full_effects(d) ==
  IF d.goxlr.device_type = "Full" THEN set_pitch_mode(load_effects(d)) ELSE d

apply_mic_profile(d) ==
  LET keys == (MicrophoneParamKey \ {"DynamicGain", "CondenserGain", "JackGain"})
              \cup {get_gain_param(d.mic_profile.mic_type)}
      full == d.goxlr.device_type = "Full"
  IN  apply_full_effects(
        apply_effects(apply_mic_params(apply_mic_gain(d), keys),
                      get_common_keys \cup (IF full THEN get_full_keys ELSE {})))

-----------------------------------------------------------------------------
(* Device controller: perform_command                                      *)

\* SetSwearButtonVolume without the range check.
cmd_set_swear_button_volume_unchecked(d, volume) ==
  goxlr_set_effect_values(settings_save(set_device_bleep_volume(d, volume)),
                          {<<"BleepLevel", volume>>})

cmd_set_swear_button_volume(d, volume) ==
  IF volume < -34 \/ volume > 0 THEN Fail(d, "Mute volume must be between -34 and 0")
  ELSE goxlr_set_effect_values(settings_save(set_device_bleep_volume(d, volume)),
                               {<<"BleepLevel", volume>>})

\* store the value, push the microphone parameter, push the effect key
push_both(d, param, effect) == apply_effects(apply_mic_params(d, {param}), {effect})

\* The colour store is not modelled: valid says whether the store accepts
\* the colours; the hardware writes that follow are.
cmd_colours(d, valid, states_too) ==
  LET d1 == IF valid THEN d ELSE Fail(d, "Invalid colour")
      d2 == load_colour_map(d1)
  IN  IF states_too THEN update_button_states(d2) ELSE d2

cmd_load_profile(d, profile_name) ==
  Then(apply_profile(profile_from_named(d, profile_name)), LAMBDA d1 :
  settings_save(set_device_profile_name(d1, d1.profile.name)))

cmd_load_mic_profile(d, mic_profile_name) ==
  Then(apply_mic_profile(mic_profile_from_named(d, mic_profile_name)), LAMBDA d1 :
  settings_save(set_device_mic_profile_name(d1, d1.mic_profile.name)))

perform_command(d, command) ==
  LET n == command.name
      a == command.a
      b == command.b
      c == command.c
  IN  CASE n = "SetFader" -> set_fader(d, a, b)
        [] n = "SetFaderMuteFunction" ->
             IF get_mute_button_state(d, a).mute_function = b THEN d
             ELSE set_mute_button(unmute_if_muted(d, a), a, "mute_function", b)
        [] n = "SetVolume" -> set_channel_volume(goxlr_set_volume(d, a, b), a, b)
        [] n = "SetCoughMuteFunction" ->
             IF get_mute_chat_button_state(d).mute_function = a THEN d
             ELSE set_mute_chat_button(unmute_chat_if_muted(d), "mute_function", a)
        [] n = "SetCoughIsHold" ->
             set_mute_chat_button(unmute_chat_if_muted(d), "toggle", ~a)
        [] n = "SetSwearButtonVolume" -> cmd_set_swear_button_volume(d, a)
        [] n = "SetMicrophoneType" -> apply_mic_gain(set_mic_type(d, a))
        [] n = "SetMicrophoneGain" -> apply_mic_gain(set_mic_gain(set_mic_type(d, a), a, b))
        [] n = "SetRouter" -> apply_routing(set_routing(d, a, b, c), a)
        [] n = "SetEqMiniGain" ->
             IF b < -9 \/ b > 9 THEN Fail(d, "Gain volume should be between -9 and 9 dB")
             ELSE apply_mic_params(set_mini_eq_gain(d, a, b), {EqKey(a, "Gain")})
        [] n = "SetEqMiniFreq" ->
             IF ~(300 <= b /\ b <= 18000)
             THEN Fail(d, "EQ Frequency should be between 300hz and 18khz")
             ELSE apply_mic_params(set_mini_eq_freq(d, a, b), {EqKey(a, "Frequency")})
        [] n = "SetEqGain" ->
             IF b < -9 \/ b > 9 THEN Fail(d, "Gain volume should be between -9 and 9 dB")
             ELSE apply_effects(set_eq_gain(d, a, b), {EqKey(a, "Gain")})
        [] n = "SetEqFreq" -> apply_effects(set_eq_freq(d, a, b), {EqKey(a, "Frequency")})
        [] n = "SetGateThreshold" ->
             IF a > 0 \/ a < -59 THEN Fail(d, "Threshold should be between 0 and -59dB")
             ELSE push_both(set_gate(d, "threshold", a), "GateThreshold", "GateThreshold")
        [] n = "SetGateAttenuation" ->
             IF a > 100 THEN Fail(d, "Attentuation should be a percentage")
             ELSE push_both(set_gate(d, "attenuation", a),
                            "GateAttenuation", "GateAttenuation")
        [] n = "SetGateAttack" ->
             push_both(set_gate(d, "attack", a), "GateAttack", "GateAttack")
        [] n = "SetGateRelease" ->
             push_both(set_gate(d, "release", a), "GateRelease", "GateRelease")
        [] n = "SetGateActive" -> apply_effects(set_gate(d, "enabled", a), {"GateEnabled"})
        [] n = "SetCompressorThreshold" ->
             IF a > 0 \/ a < -24
             THEN Fail(d, "Compressor Threshold must be between 0 and -24 dB")
             ELSE push_both(set_compressor(d, "threshold", a),
                            "CompressorMakeUpGain", "CompressorMakeUpGain")
        [] n = "SetCompressorRatio" ->
             push_both(set_compressor(d, "ratio", a), "CompressorRatio", "CompressorRatio")
        [] n = "SetCompressorAttack" ->
             push_both(set_compressor(d, "attack", a), "CompressorAttack", "CompressorAttack")
        [] n = "SetCompressorReleaseTime" ->
             push_both(set_compressor(d, "release", a),
                       "CompressorRelease", "CompressorRelease")
        [] n = "SetCompressorMakeupGain" ->
             IF a > 24 THEN Fail(d, "Makeup Gain should be between 0 and 24dB")
             ELSE push_both(set_compressor(d, "makeup", a),
                            "CompressorMakeUpGain", "CompressorMakeUpGain")
        [] n = "SetFaderDisplayStyle" -> set_fader_display_from_profile(d, a)
        [] n \in {"SetFaderColours", "SetAllFaderColours"} -> cmd_colours(d, a, FALSE)
        [] n = "SetAllFaderDisplayStyle" -> load_colour_map(d)
        [] n \in {"SetButtonColours", "SetButtonGroupColours"} -> cmd_colours(d, a, TRUE)
        [] n \in {"SetButtonOffStyle", "SetButtonGroupOffStyle"} -> cmd_colours(d, TRUE, TRUE)
        [] n = "LoadProfile" -> cmd_load_profile(d, a)
        [] n = "SaveProfile" ->
             IF d.settings.profile_name = {} THEN d
             ELSE profile_write_profile(d, unwrap_or(d.settings.profile_name, ""), TRUE)
        [] n = "SaveProfileAs" ->
             settings_save(set_device_profile_name(
               profile_write_profile(d, a, FALSE), a))
        [] n = "LoadMicProfile" -> cmd_load_mic_profile(d, a)
        [] n = "SaveMicProfile" ->
             IF d.settings.mic_profile_name = {} THEN d
             ELSE mic_profile_write_profile(d, unwrap_or(d.settings.mic_profile_name, ""), TRUE)
        [] n = "SaveMicProfileAs" ->
             settings_save(set_device_mic_profile_name(
               mic_profile_write_profile(d, a, FALSE), a))

-----------------------------------------------------------------------------
(* Device controller: construction                                         *)

\* from_named_or_default of both adapters: a missing or unreadable name
\* falls back to the built-in profile.
profile_from_named_or_default(d, name) ==
  IF name = {} THEN [d EXCEPT !.profile = DefaultProfile]
  ELSE LET d1 == profile_from_named(d, unwrap_or(name, ""))
       IN  IF d1.err THEN [d EXCEPT !.profile = DefaultProfile] ELSE d1

mic_profile_from_named_or_default(d, name) ==
  IF name = {} THEN [d EXCEPT !.mic_profile = DefaultMicProfile]
  ELSE LET d1 == mic_profile_from_named(d, unwrap_or(name, ""))
       IN  IF d1.err THEN [d EXCEPT !.mic_profile = DefaultMicProfile] ELSE d1

\* Device::new
new(hardware, profile_name, mic_profile_name, settings_handle, audio_present) ==
  LET d0 == [profile |-> DefaultProfile, mic_profile |-> DefaultMicProfile,
             settings |-> settings_handle, goxlr |-> hardware,
             last_buttons |-> {},
             button_states |-> [b \in Buttons |-> [press_time |-> 0, hold_handled |-> FALSE]],
             audio |-> [present |-> audio_present, playing |-> {}],
             now |-> 0, err |-> FALSE, fuel |-> -1, log |-> <<>>]
      d1 == mic_profile_from_named_or_default(
              profile_from_named_or_default(d0, profile_name), mic_profile_name)
  IN  apply_mic_profile(apply_profile(d1))

-----------------------------------------------------------------------------
(* The state machine                                                       *)

\* The device record of the current state, before an operation runs.
Dev ==
  [profile |-> profile, mic_profile |-> mic_profile, settings |-> settings,
   goxlr |-> goxlr, last_buttons |-> last_buttons, button_states |-> button_states,
   audio |-> audio_handler, now |-> now, err |-> FALSE, fuel |-> -1, log |-> <<>>]

NoCommand == Cmd("", 0, 0, 0)

NoSnapshot == [ok |-> FALSE, pressed |-> {}, finished |-> {},
               volumes |-> [f \in FaderName |-> 0], encoders |-> [e \in EncoderName |-> 0]]

\* What set_fader may change in the Profile Store.
FaderView(p) ==
  [faders |-> p.faders, mute_buttons |-> p.mute_buttons, volumes |-> p.volumes,
   mic_fader_id |-> p.mute_chat.mic_fader_id]

NoSwap == [active |-> FALSE, fader |-> 0, channel |-> "Mic", pre |-> FaderView(DefaultProfile)]

Hist0 == [hold_volume |-> [c \in ChannelName |-> -1],
          released |-> [c \in ChannelName |-> -1],
          holds |-> [b \in Buttons |-> 0],
          swap |-> NoSwap,
          half_muted |-> [f \in FaderName |-> -1],
          mute_volume |-> [f \in FaderName |-> -1]]

\* Entries of a log with the given operation, key and value.
Calls(log, op, key, val) ==
  {i \in 1 .. Len(log) : log[i].op = op /\ log[i].key = key /\ log[i].val = val /\ log[i].ok}

\* Handler invocations on a button.
Invocations(log, op, button) == {i \in 1 .. Len(log) : log[i].op = op /\ log[i].key = button}

\* A hold on fader f took a fader that was not muted into full mute.
HoldForced(d0, d1, f) ==
  /\ Calls(d1.log, "handle_fader_mute", "held", f) # {}
  /\ ~d0.profile.mute_buttons[f].state /\ ~d0.profile.mute_buttons[f].blink
  /\ d1.profile.mute_buttons[f].state /\ d1.profile.mute_buttons[f].blink

\* A tap on the fader carrying channel c ended a full mute that a hold had
\* forced, and the hardware took the volume written back.
HoldReleased(d0, d1, c) ==
  /\ hist.hold_volume[c] >= 0
  /\ \E f \in FaderName :
        /\ d0.profile.faders[f] = c
        /\ d0.profile.mute_buttons[f].blink
        /\ Calls(d1.log, "handle_fader_mute", "tap", f) # {}
  /\ \E i \in 1 .. Len(d1.log) :
        d1.log[i].op = "set_volume" /\ d1.log[i].key = c /\ d1.log[i].ok

\* The mute of fader f stopped half way: handle_fader_mute set the volume to
\* 0 and the set_channel_state(Muted) call after it failed.
HalfMuted(log, f) ==
  \E i \in 1 .. Len(log) - 2 :
     /\ log[i].op = "handle_fader_mute" /\ log[i].val = f
     /\ log[i + 1].op = "set_volume" /\ log[i + 1].val = 0 /\ log[i + 1].ok
     /\ log[i + 2].op = "set_channel_state" /\ log[i + 2].val = 1 /\ ~log[i + 2].ok

\* The history kept for the claims, after the operation took d0 to d1:
\*  hold_volume[c]  the previous_volume recorded when a hold forced the fader
\*                  of channel c, not muted until then, into full mute (-1:
\*                  no such mute is in force);
\*  released[c]     that volume, in the state right after the mute was released;
\*  holds[b]        the hold-handler invocations of button b in its press cycle;
\*  swap            the Profile Store before the last command, if it swapped
\*                  two faders;
\*  half_muted[f]   the volume the channel of fader f had when a mute of f
\*                  stopped half way, until handle_fader_mute runs on f again
\*                  or a command is performed (-1: no such mute);
\*  mute_volume[f]  the hardware volume the channel of fader f had before a
\*                  tick muted the fader; while the mute is partial, which
\*                  leaves the volume to the user, the volume before the last
\*                  tick; -1 when f is not muted or its mute was not observed.
NextHist(d0, d1, command) ==
  [hold_volume |->
     [c \in ChannelName |->
        IF \E f \in FaderName : d1.profile.faders[f] = c /\ HoldForced(d0, d1, f)
        THEN d1.profile.mute_buttons[
               CHOOSE f \in FaderName : d1.profile.faders[f] = c /\ HoldForced(d0, d1, f)
             ].previous_volume
        ELSE IF command.name # "LoadProfile"
                /\ \E f \in FaderName :
                      d1.profile.faders[f] = c /\ d1.profile.mute_buttons[f].blink
             THEN hist.hold_volume[c]
             ELSE -1],
   released |->
     [c \in ChannelName |-> IF HoldReleased(d0, d1, c) THEN hist.hold_volume[c] ELSE -1],
   holds |->
     [b \in Buttons |->
        (IF Invocations(d1.log, "on_button_down", b) # {}
            \/ Invocations(d1.log, "on_button_up", b) # {}
         THEN 0 ELSE hist.holds[b])
        + Cardinality(Invocations(d1.log, "on_button_hold", b))],
   swap |->
     IF command.name = "SetFader" /\ ~d1.err
        /\ command.b # get_fader_assignment(d0, command.a)
        /\ fader_to_switch(d0, command.a, command.b) # NoMicFader
     THEN [active |-> TRUE, fader |-> command.a,
           channel |-> get_fader_assignment(d0, command.a), pre |-> FaderView(d0.profile)]
     ELSE NoSwap,
   half_muted |->
     [f \in FaderName |->
        IF HalfMuted(d1.log, f) THEN d1.profile.mute_buttons[f].previous_volume
        ELSE IF command.name # ""
                \/ \E i \in 1 .. Len(d1.log) :
                      d1.log[i].op = "handle_fader_mute" /\ d1.log[i].val = f
             THEN -1
             ELSE hist.half_muted[f]],
   mute_volume |->
     [f \in FaderName |->
        LET before == d0.profile.mute_buttons[f]
            after  == d1.profile.mute_buttons[f]
        IN  IF command.name # ""
            THEN IF before = after /\ d0.profile.faders[f] = d1.profile.faders[f]
                 THEN hist.mute_volume[f] ELSE -1
            ELSE IF ~after.state THEN -1
            ELSE IF before.blink \/ (before.state /\ before.mute_function = "All")
                 THEN hist.mute_volume[f]
                 ELSE d0.goxlr.volume[d0.profile.faders[f]]]]

Install(d, l, h) ==
  /\ profile' = d.profile
  /\ mic_profile' = d.mic_profile
  /\ settings' = d.settings
  /\ goxlr' = d.goxlr
  /\ last_buttons' = d.last_buttons
  /\ button_states' = d.button_states
  /\ audio_handler' = d.audio
  /\ now' = d.now
  /\ last' = l
  /\ hist' = h

\* What the user did to a fader or an encoder since the last tick.
NoKnob == <<"none", 0, 0>>

Human(hw, knob) ==
  CASE knob[1] = "fader" -> [hw EXCEPT !.volume[hw.fader[knob[2]]] = knob[3]]
    [] knob[1] = "encoder" -> [hw EXCEPT !.encoders[knob[2]] = U8(knob[3])]
    [] OTHER -> hw

\* GoXLR::get_button_states: the snapshot the hardware reports.
get_button_states(hw, pressed, finished, ok) ==
  [ok |-> ok, pressed |-> pressed, finished |-> finished,
   volumes |-> [f \in FaderName |-> hw.volume[hw.fader[f]]],
   encoders |-> [e \in EncoderName |-> I8(hw.encoders[e])]]

\* The sets of buttons the next snapshot can report: at most MaxChanged of
\* the pollable buttons changed since the last snapshot that was read.
NextPressed(pollable) ==
  {((last_buttons \ c) \cup (c \ last_buttons)) : c \in {x \in SUBSET pollable :
                                                           Cardinality(x) <= MaxChanged}}

\* The operation op took the device from d0 to d1.
Installed(d0, d1, op, command, state) ==
  Install(d1, [op |-> op, cmd |-> command, state |-> state, ok |-> ~d1.err, log |-> d1.log],
          NextHist(d0, d1, command))

\* The poll tick of device d0 that reads the snapshot state.
Polled(d0, state) == Installed(d0, monitor_inputs(d0, state), "monitor_inputs", NoCommand, state)

\* One poll tick, dt ms after the previous operation.
MonitorInputs(pressed, knob, finished, dt, fuel, ok) ==
  /\ now + dt <= MaxTime * 250
  /\ Polled([Dev EXCEPT !.now = now + dt, !.fuel = fuel, !.goxlr = Human(goxlr, knob)],
            get_button_states(Human(goxlr, knob), pressed, finished, ok))

\* The command performed on device d0.
Performed(d0, command) ==
  Installed(d0, perform_command(d0, command), "perform_command", command, NoSnapshot)

\* One command of the IPC client.
PerformCommand(command, fuel) == Performed([Dev EXCEPT !.fuel = fuel], command)

\* The state is that of the device d that Device::new returned.
AttachedAs(d) ==
  /\ profile = d.profile
  /\ mic_profile = d.mic_profile
  /\ settings = d.settings
  /\ goxlr = d.goxlr
  /\ last_buttons = d.last_buttons
  /\ button_states = d.button_states
  /\ audio_handler = d.audio
  /\ now = 0
  /\ last = [op |-> "new", cmd |-> NoCommand, state |-> NoSnapshot, ok |-> ~d.err,
             log |-> d.log]
  /\ hist = Hist0

\* The state after Device::new succeeded.
Attached(profile_name, mic_profile_name, device_type, audio_present) ==
  AttachedAs(new(Hardware0(device_type), profile_name, mic_profile_name,
                 Settings0(profile_name, mic_profile_name), audio_present))

\* How many hardware calls of an operation succeed before one fails (-1: all).
MaxFuel == 3

-----------------------------------------------------------------------------
(* Specification Spec: the mute button of the microphone's fader under the *)
(* polling loop, which runs every 250 ms                                   *)

PollButtons == {"Fader1Mute"}

Init == \E p \in {{}, {"Stream"}} : Attached(p, {}, "Full", FALSE)

\* A tick in which the hardware works.
Tick == \E pressed \in NextPressed(PollButtons) : MonitorInputs(pressed, NoKnob, {}, 250, -1, TRUE)

\* A tick before which the user moved the first fader.
TickMoved ==
  \E v \in 0 .. MaxVolume : MonitorInputs(last_buttons, <<"fader", 0, v>>, {}, 250, -1, TRUE)

\* A tick in which one hardware call fails.
TickFailing ==
  \E pressed \in NextPressed(PollButtons), fuel \in 0 .. MaxFuel :
     MonitorInputs(pressed, NoKnob, {}, 250, fuel, TRUE)

\* A tick in which the snapshot cannot be read.
TickUnread == MonitorInputs(last_buttons, NoKnob, {}, 250, -1, FALSE)

LoadProfile == PerformCommand(Cmd("LoadProfile", "Stream", 0, 0), -1)

Next == Tick \/ TickMoved \/ TickFailing \/ TickUnread \/ LoadProfile

Spec == Init /\ [][Next]_vars

-----------------------------------------------------------------------------
(* Claims checked under Spec                                               *)

\* C1: in every reachable state, for every fader whose mute button is in the
\* muted-to-all state, the channel state last pushed to the hardware for the
\* channel assigned to that fader is Muted.
C1_MutedToAllIsMuted ==
  \A f \in FaderName :
     get_mute_button_state(Dev, f).muted_to_all
       => goxlr.state[get_fader_assignment(Dev, f)] = "Muted"

\* The fader carrying the microphone, its button and the poll tick's events.
MicFaders == {f \in FaderName : profile.faders[f] = "Mic"}

MuteButtonOf(f) ==
  CASE f = 0 -> "Fader1Mute" [] f = 1 -> "Fader2Mute" [] f = 2 -> "Fader3Mute"
    [] OTHER -> "Fader4Mute"

\* The log has no failed call and no swallowed error.
Clean(log) == \A i \in 1 .. Len(log) : log[i].ok /\ log[i].op # "error!"

\* The hold handler ran on fader f in the step, f not muted before, and no
\* hardware call failed.
HeldUnmuted(f) ==
  /\ last'.op = "monitor_inputs"
  /\ Invocations(last'.log, "on_button_hold", MuteButtonOf(f)) # {}
  /\ Clean(last'.log)
  /\ ~profile.mute_buttons[f].state /\ ~profile.mute_buttons[f].blink

\* The button of fader f was released in the step; hold says whether the
\* hold handler had run in that press cycle.
ReleasedAfter(f, hold) ==
  /\ last'.op = "monitor_inputs"
  /\ \E i \in Invocations(last'.log, "on_button_up", MuteButtonOf(f)) :
        last'.log[i].val = Bool2Int(hold)
  /\ Clean(last'.log)

\* What the hold does: the volume the tick reconciled is recorded, the
\* hardware volume is 0, the channel Muted, the light on and blinking.
HoldMutes(f) ==
  /\ profile'.mute_buttons[f].previous_volume
       = update_volumes_to(Dev, last'.state.volumes).profile.volumes["Mic"]
  /\ goxlr'.volume["Mic"] = 0
  /\ profile'.volumes["Mic"] = 0
  /\ goxlr'.state["Mic"] = "Muted"
  /\ profile'.mute_buttons[f].state /\ profile'.mute_buttons[f].blink

\* The mute is gone: light and blink off, the hardware and stored volume back
\* at the recorded volume v, the Mic channel Unmuted.
Unmuted(f, v) ==
  /\ ~profile'.mute_buttons[f].state /\ ~profile'.mute_buttons[f].blink
  /\ goxlr'.volume["Mic"] = v
  /\ profile'.volumes["Mic"] = v
  /\ goxlr'.state["Mic"] = "Unmuted"

\* The scenario of C2: fader f carries Mic, its function is All, and the
\* cough button does not mute the microphone.
MicFaderAll(f) ==
  /\ f \in MicFaders
  /\ profile.mute_buttons[f].mute_function = "All"
  /\ ~mic_muted_by_cough(Dev)

\* C2 as stated: the hold snapshots the volume, zeroes the hardware volume,
\* mutes the channel and lights the blinking button, and the release of the
\* button after that hold turns light and blink off, restores the volume and
\* unmutes the Mic channel.
C2_ReleaseAfterHoldUnmutes ==
  [][\A f \in FaderName :
       /\ (MicFaderAll(f) /\ HeldUnmuted(f)) => HoldMutes(f)
       /\ (MicFaderAll(f) /\ hist.hold_volume["Mic"] >= 0 /\ ReleasedAfter(f, TRUE))
            => Unmuted(f, hist.hold_volume["Mic"])]_vars

\* C2: with fader A on Mic, function All, not muted, and Mic not cough-muted,
\* the hold snapshots the volume, sets the hardware volume to 0, the channel
\* Muted and the light on and blinking; the release that ends that hold
\* leaves the light, the blink, the recorded volume and the hardware's volume
\* and channel state as they are; the next tap of the button (a press and a
\* release without a hold) turns the light and the blink off, restores the
\* hardware and stored volume to the snapshot and sets the Mic channel Unmuted.
C2_TapAfterHoldUnmutes ==
  [][\A f \in FaderName :
       /\ (MicFaderAll(f) /\ HeldUnmuted(f)) => HoldMutes(f)
       /\ (MicFaderAll(f) /\ hist.hold_volume["Mic"] >= 0 /\ ReleasedAfter(f, TRUE))
            => /\ profile'.mute_buttons[f] = profile.mute_buttons[f]
               /\ goxlr'.state["Mic"] = goxlr.state["Mic"]
               /\ goxlr'.volume["Mic"] = goxlr.volume["Mic"]
               /\ hist'.hold_volume["Mic"] = hist.hold_volume["Mic"]
       /\ (MicFaderAll(f) /\ hist.hold_volume["Mic"] >= 0 /\ ReleasedAfter(f, FALSE))
            => Unmuted(f, hist.hold_volume["Mic"])]_vars

\* The tap after a hold has unmuted the microphone at a volume of its own.
C2_Witness ==
  /\ hist.released["Mic"] \in 1 .. MaxVolume - 1
  /\ last.op = "monitor_inputs" /\ Clean(last.log)
  /\ goxlr.state["Mic"] = "Unmuted"
  /\ goxlr.volume["Mic"] = hist.released["Mic"]

\* C3: when a full mute that a hold forced on a fader that was not muted is
\* released, the hardware volume and the stored volume of the channel both
\* equal the previous_volume recorded when the hold fired.
C3_ReleaseRestoresHoldVolume ==
  \A c \in ChannelName :
     hist.released[c] >= 0
       => goxlr.volume[c] = hist.released[c] /\ profile.volumes[c] = hist.released[c]

\* A hold-forced mute was released at a volume the user had set before the hold.
C3_Witness ==
  \E c \in ChannelName :
     /\ hist.released[c] \in 1 .. MaxVolume - 1
     /\ profile.volumes[c] = hist.released[c]
     /\ \E f \in FaderName : profile.faders[f] = c /\ ~profile.mute_buttons[f].blink

-----------------------------------------------------------------------------
(* Specification SpecPoll: the mute button of the Music fader and the cough *)
(* button under the polling loop                                           *)

PolledButtons == {"Fader3Mute", "MicrophoneMute"}

PollTick ==
  \E pressed \in NextPressed(PolledButtons) : MonitorInputs(pressed, NoKnob, {}, 250, -1, TRUE)

PollTickFailing ==
  \E pressed \in NextPressed(PolledButtons), fuel \in {0, MaxFuel} :
     MonitorInputs(pressed, NoKnob, {}, 250, fuel, TRUE)

PollTickUnread == MonitorInputs(last_buttons, NoKnob, {}, 250, -1, FALSE)

PollNext == PollTick \/ PollTickFailing \/ PollTickUnread

SpecPoll == Init /\ [][PollNext]_vars

\* Fader f was tapped in the step and every hardware call succeeded.
Tapped(f) ==
  /\ last'.op = "monitor_inputs"
  /\ Calls(last'.log, "handle_fader_mute", "tap", f) # {}
  /\ Clean(last'.log)

\* The routing the hardware holds for the channel of fader f has output o
\* enabled on both sides.
Routed(hw, f, o) ==
  LET input == basic_input(profile.faders[f])
  IN  hw.routing[input]["left"][o] = GainEnabled /\ hw.routing[input]["right"][o] = GainEnabled

\* C5: a tap on a ToStream fader that is not muted pushes routing for its
\* channel with BroadcastMix disabled and every other destination as in the
\* persisted routing; the next tap pushes routing in which every destination,
\* BroadcastMix included, is as in the persisted routing.
C5_ToStreamTap ==
  [][\A f \in FaderName :
       (/\ profile.mute_buttons[f].mute_function = "ToStream"
        /\ ~profile.mute_buttons[f].blink
        /\ basic_input(profile.faders[f]) # "None"
        /\ Tapped(f))
         => \A o \in BasicOutputDevice :
               Routed(goxlr', f, o)
                 <=> /\ o \in get_router(Dev, basic_input(profile.faders[f]))
                     /\ (o = "BroadcastMix" => profile.mute_buttons[f].state)]_vars

\* C10: for every button and press cycle the hold handler is invoked at most
\* once, and only in a tick whose snapshot still reports the button pressed
\* and that is more than 500 ms after the recorded press time.
C10_HoldOncePerPress ==
  [][\A b \in Buttons :
       /\ hist'.holds[b] <= 1
       /\ Invocations(last'.log, "on_button_hold", b) # {}
            => /\ last'.op = "monitor_inputs"
               /\ b \in last'.state.pressed
               /\ b \in last_buttons
               /\ now' - button_states'[b].press_time > HoldThreshold
               /\ button_states'[b].press_time = button_states[b].press_time]_vars

\* A button was held, the handler ran once, and later ticks still saw it pressed.
C10_Witness ==
  \E b \in Buttons :
     /\ hist.holds[b] = 1
     /\ b \in last_buttons
     /\ button_states[b].hold_handled
     /\ now - button_states[b].press_time > 2 * HoldThreshold

\* C20: in every press cycle of a fader-mute button handle_fader_mute is
\* invoked exactly once for its fader: by the hold handler with held = true
\* if the hold fired in the cycle, and then not on the release; otherwise
\* once on the release, with held = false.
C20_MuteOncePerCycle ==
  [][\A f \in FaderName :
       LET b    == MuteButtonOf(f)
           held == Calls(last'.log, "handle_fader_mute", "held", f)
           tap  == Calls(last'.log, "handle_fader_mute", "tap", f)
           up   == Invocations(last'.log, "on_button_up", b)
       IN  last'.op = "monitor_inputs"
             => /\ Cardinality(held) = Cardinality(Invocations(last'.log, "on_button_hold", b))
                /\ hist'.holds[b] <= 1
                /\ (up = {}) => (tap = {})
                /\ (up # {}) => (held = {})
                /\ (up # {} /\ hist.holds[b] = 1) => (tap = {})
                /\ (up # {} /\ hist.holds[b] = 0) => (Cardinality(tap) = 1)]_vars

\* The button of fader C was released after its hold had muted the fader,
\* and the release did not invoke handle_fader_mute.
C20_Witness ==
  /\ last.op = "monitor_inputs"
  /\ \E i \in Invocations(last.log, "on_button_up", "Fader3Mute") : last.log[i].val = 1
  /\ \A i \in 1 .. Len(last.log) : last.log[i].op # "handle_fader_mute"
  /\ profile.mute_buttons[2].state /\ profile.mute_buttons[2].blink

\* A mute button (of a fader, or the cough button) is in a full-mute state.
FullMute(button) == button.blink \/ (button.state /\ button.mute_function = "All")

\* C15: in every reachable state a channel whose hardware channel state is
\* Muted is assigned to a fader whose mute button is in a full-mute state,
\* or is the Mic channel while the cough button is in a full-mute state.
C15_NoOrphanedMute ==
  \A c \in ChannelName :
     goxlr.state[c] = "Muted"
       => \/ \E f \in FaderName : profile.faders[f] = c /\ FullMute(profile.mute_buttons[f])
          \/ c = "Mic" /\ FullMute(profile.mute_chat)

\* C22: previous_volume is not recorded again while a fader is in full mute,
\* and a tap that takes a fader out of full mute restores, in the hardware
\* and in the store, the volume its channel had before the fader was muted,
\* whether the full mute was entered at once, or by a hold that followed a
\* press-mute or a partial mute.
C22_NoSecondSnapshot ==
  [][\A f \in FaderName :
       LET c == profile.faders[f]
       IN  /\ (/\ last'.op = "monitor_inputs"
               /\ FullMute(profile.mute_buttons[f])
               /\ FullMute(profile'.mute_buttons[f]))
                => profile'.mute_buttons[f].previous_volume
                     = profile.mute_buttons[f].previous_volume
           /\ (/\ hist.mute_volume[f] >= 0
               /\ FullMute(profile.mute_buttons[f])
               /\ Tapped(f))
                => /\ goxlr'.volume[c] = hist.mute_volume[f]
                   /\ profile'.volumes[c] = hist.mute_volume[f]]_vars

\* The step pushed both sides of the routing of an input to the hardware.
RoutingPushed(input) ==
  /\ Calls(last'.log, "set_routing", input, 0) # {}
  /\ Calls(last'.log, "set_routing", input, 1) # {}

\* C24: a partial mute of the cough button suppresses its output only in the
\* routing pushed for the Microphone: the routing pushed for any other input
\* is the persisted routing of that input without the outputs suppressed by
\* the faders that carry it, whether the cough button is muted or not.
C24_CoughOnlyMicrophone ==
  [][\A input \in BasicInputDevice \ {"Microphone"} :
       RoutingPushed(input)
         => \A o \in BasicOutputDevice :
               (/\ goxlr'.routing[input]["left"][o] = GainEnabled
                /\ goxlr'.routing[input]["right"][o] = GainEnabled)
                 <=> o \in transient_fader_loop([Dev EXCEPT !.profile = profile'],
                                                input_channel_name(input), 0,
                                                profile'.router[input])]_vars

\* The cough handler ran in the step for the given event (press, held or
\* release) and no hardware call failed.
Coughed(event) ==
  /\ last'.op = "monitor_inputs"
  /\ \E i \in 1 .. Len(last'.log) :
        last'.log[i].op = "handle_cough_mute" /\ last'.log[i].key = event
  /\ Clean(last'.log)

\* The cough button is in press-and-hold mode with mute function All.
CoughHoldsAll == ~profile.mute_chat.toggle /\ profile.mute_chat.mute_function = "All"

\* C26: in press-and-hold mode with mute function All the cough button mutes
\* the microphone exactly while it is pressed: the press sets the Mic channel
\* Muted and lights the button; the release turns the light off and sets the
\* Mic channel Unmuted unless the fader of the microphone mutes it fully.
C26_CoughWhilePressed ==
  [][/\ (CoughHoldsAll /\ Coughed("press"))
          => goxlr'.state["Mic"] = "Muted" /\ profile'.mute_chat.state
     /\ (CoughHoldsAll /\ Coughed("release"))
          => /\ ~profile'.mute_chat.state
             /\ ~mic_muted_by_fader(Dev) => goxlr'.state["Mic"] = "Unmuted"]_vars

-----------------------------------------------------------------------------
(* Specification SpecSwap: fader reassignment by SetFader commands         *)

SwapFaders == {0, 3}

SwapChannels == {"Mic", "System", "Game"}

SetFader ==
  \E fader \in SwapFaders, channel \in SwapChannels :
     PerformCommand(Cmd("SetFader", fader, channel, 0), -1)

SetFaderFailing ==
  \E fader \in SwapFaders, channel \in SwapChannels :
     PerformCommand(Cmd("SetFader", fader, channel, 0), 0)

SwapNext == SetFader \/ SetFaderFailing

SpecSwap == Init /\ [][SwapNext]_vars

\* The step is the command set_fader(A, X) that undoes the swap the previous
\* command made by set_fader(A, Y), and it succeeded.
SwappedBack ==
  /\ hist.swap.active
  /\ last'.op = "perform_command" /\ last'.ok
  /\ last'.cmd = Cmd("SetFader", hist.swap.fader, hist.swap.channel, 0)

\* C4: set_fader(A, Y) followed by set_fader(A, X), for fader A on channel X
\* and another fader B on channel Y, returns both faders to their original
\* channel assignment and mute-button state, and the stored volumes and the
\* mic fader id to their original values.
C4_SwapInvolutive ==
  [][SwappedBack =>
       LET pre == hist.swap.pre
           A   == hist.swap.fader
           B   == CHOOSE f \in FaderName : pre.faders[f] = last.cmd.b
       IN  /\ \A f \in {A, B} :
                /\ profile'.faders[f] = pre.faders[f]
                /\ profile'.mute_buttons[f] = pre.mute_buttons[f]
           /\ profile'.volumes = pre.volumes
           /\ profile'.mute_chat.mic_fader_id = pre.mic_fader_id]_vars

-----------------------------------------------------------------------------
(* Specification SpecCmd: the commands that load profiles, and the commands *)
(* that check a range sent while the mic profile is as it was loaded and no *)
(* bleep volume is stored                                                   *)

Fresh ==
  /\ mic_profile \in {DefaultMicProfile, StudioMicProfile}
  /\ settings.bleep_volume = {}

ProfileNames == {"Stream", DEFAULT_PROFILE_NAME, "Missing"}

MicProfileNames == {"Studio", DEFAULT_MIC_PROFILE_NAME, "Missing"}

\* a value below, on and above each end of lo ..= hi
Around(lo, hi) == {lo - 1, lo, hi, hi + 1}

HwFuel == {-1, 0}

LoadProfileNamed ==
  \E name \in ProfileNames : PerformCommand(Cmd("LoadProfile", name, 0, 0), -1)

LoadMicProfileNamed ==
  \E name \in MicProfileNames : PerformCommand(Cmd("LoadMicProfile", name, 0, 0), -1)

SetSwearButtonVolume ==
  /\ Fresh
  /\ \E volume \in Around(-34, 0) \cup {5}, fuel \in HwFuel :
        PerformCommand(Cmd("SetSwearButtonVolume", volume, 0, 0), fuel)

SetEqMiniGain ==
  /\ Fresh
  /\ \E value \in Around(-9, 9), fuel \in HwFuel :
        PerformCommand(Cmd("SetEqMiniGain", "Equalizer90Hz", value, 0), fuel)

SetEqMiniFreq ==
  /\ Fresh
  /\ \E value \in Around(300, 18000), fuel \in HwFuel :
        PerformCommand(Cmd("SetEqMiniFreq", "Equalizer3KHz", value, 0), fuel)

SetEqGain ==
  /\ Fresh
  /\ \E value \in Around(-9, 9), fuel \in HwFuel :
        PerformCommand(Cmd("SetEqGain", "Equalizer1KHz", value, 0), fuel)

SetEqFreq ==
  /\ Fresh
  /\ \E freq \in {"Equalizer31Hz", "Equalizer2KHz", "Equalizer16KHz"}, fuel \in HwFuel :
        \E value \in Around(eq_freq_range(freq)[1], eq_freq_range(freq)[2]) :
           PerformCommand(Cmd("SetEqFreq", freq, value, 0), fuel)

SetGateThreshold ==
  /\ Fresh
  /\ \E value \in Around(-59, 0), fuel \in HwFuel :
        PerformCommand(Cmd("SetGateThreshold", value, 0, 0), fuel)

\* the percentage is a u8
SetGateAttenuation ==
  /\ Fresh
  /\ \E percentage \in {0, 50, 100, 101, 255}, fuel \in HwFuel :
        PerformCommand(Cmd("SetGateAttenuation", percentage, 0, 0), fuel)

SetCompressorThreshold ==
  /\ Fresh
  /\ \E value \in Around(-24, 0), fuel \in HwFuel :
        PerformCommand(Cmd("SetCompressorThreshold", value, 0, 0), fuel)

\* the gain is a u8
SetCompressorMakeupGain ==
  /\ Fresh
  /\ \E value \in {0, 24, 25, 255}, fuel \in HwFuel :
        PerformCommand(Cmd("SetCompressorMakeupGain", value, 0, 0), fuel)

CmdNext ==
  \/ LoadProfileNamed \/ LoadMicProfileNamed \/ SetSwearButtonVolume
  \/ SetEqMiniGain \/ SetEqMiniFreq \/ SetEqGain \/ SetEqFreq
  \/ SetGateThreshold \/ SetGateAttenuation
  \/ SetCompressorThreshold \/ SetCompressorMakeupGain

SpecCmd == Init /\ [][CmdNext]_vars

-----------------------------------------------------------------------------
(* Claims checked under SpecCmd                                            *)

\* The step performed the command of that name.
Commanded(name) == last'.op = "perform_command" /\ last'.cmd.name = name

\* The only thing the command did was to return Err.
Rejected(log) == Len(log) = 1 /\ log[1].op = "Err"

\* C6: LoadProfile or LoadMicProfile with a name that is no file of the
\* directory and not the reserved default name returns an error and leaves
\* the loaded profile and mic profile, the hardware state and the settings
\* (the recorded profile names included) unchanged.
C6_LoadMissingProfile ==
  [][(\/ /\ Commanded("LoadProfile")
         /\ last'.cmd.a \notin DOMAIN settings.profile_files
         /\ last'.cmd.a # "DEFAULT"
      \/ /\ Commanded("LoadMicProfile")
         /\ last'.cmd.a \notin DOMAIN settings.mic_profile_files
         /\ last'.cmd.a # "DEFAULT")
       => /\ ~last'.ok
          /\ Rejected(last'.log)
          /\ profile' = profile /\ mic_profile' = mic_profile
          /\ goxlr' = goxlr
          /\ settings' = settings]_vars

\* A missing mic profile was refused while profiles loaded from files were in use.
C6_Witness ==
  /\ last.op = "perform_command" /\ last.cmd.name = "LoadMicProfile"
  /\ last.cmd.a = "Missing" /\ ~last.ok
  /\ profile.name = "Stream" /\ mic_profile.name = "Studio"
  /\ settings.mic_profile_name = {"Studio"}

\* C7: SetSwearButtonVolume with a value outside -34..=0 is rejected with a
\* validation error: the stored bleep volume is unchanged, the settings are
\* not saved and no effect value is written to the hardware.
C7_SwearVolumeRange ==
  [][(Commanded("SetSwearButtonVolume") /\ (last'.cmd.a < -34 \/ last'.cmd.a > 0))
       => /\ ~last'.ok
          /\ Rejected(last'.log)
          /\ settings' = settings
          /\ goxlr' = goxlr]_vars

\* The bleep volume 5 was refused.
C7_Witness ==
  /\ last.op = "perform_command" /\ last.cmd.name = "SetSwearButtonVolume"
  /\ last.cmd.a = 5 /\ ~last.ok
  /\ settings.bleep_volume = {}

\* The commands that check a range, the argument holding the value, and the
\* range the documentation gives.
RangeChecked ==
  {"SetEqMiniGain", "SetEqMiniFreq", "SetEqGain", "SetEqFreq", "SetGateThreshold",
   "SetGateAttenuation", "SetCompressorThreshold", "SetCompressorMakeupGain"}

CheckedValue(command) ==
  IF command.name \in {"SetEqMiniGain", "SetEqMiniFreq", "SetEqGain", "SetEqFreq"}
  THEN command.b ELSE command.a

DocumentedRange(command) ==
  CASE command.name \in {"SetEqMiniGain", "SetEqGain"} -> <<-9, 9>>
    [] command.name = "SetEqMiniFreq" -> <<300, 18000>>
    [] command.name = "SetEqFreq" ->
         IF command.a \in {"Equalizer31Hz", "Equalizer63Hz", "Equalizer125Hz", "Equalizer250Hz"}
         THEN <<30, 300>>
         ELSE IF command.a \in {"Equalizer500Hz", "Equalizer1KHz", "Equalizer2KHz"}
              THEN <<300, 2000>>
              ELSE <<2000, 18000>>
    [] command.name = "SetGateThreshold" -> <<-59, 0>>
    [] command.name = "SetGateAttenuation" -> <<0, 100>>
    [] command.name = "SetCompressorThreshold" -> <<-24, 0>>
    [] command.name = "SetCompressorMakeupGain" -> <<0, 24>>

\* C8: a range-checked command with a value outside its range returns a
\* validation error, leaves the Mic Profile Store as it is and issues no
\* hardware write; with a value on either boundary it passes validation.
C8_RangeChecks ==
  [][(last'.op = "perform_command" /\ last'.cmd.name \in RangeChecked)
       => LET value == CheckedValue(last'.cmd)
              range == DocumentedRange(last'.cmd)
          IN  /\ (value < range[1] \/ value > range[2])
                   => /\ ~last'.ok
                      /\ Rejected(last'.log)
                      /\ mic_profile' = mic_profile
                      /\ goxlr' = goxlr
              /\ value \in {range[1], range[2]}
                   => \A i \in 1 .. Len(last'.log) : last'.log[i].op # "Err"]_vars

\* A frequency just above the range of its band was refused.
C8_Witness ==
  /\ last.op = "perform_command" /\ last.cmd.name = "SetEqFreq"
  /\ last.cmd.a = "Equalizer2KHz" /\ last.cmd.b = 2001
  /\ ~last.ok

-----------------------------------------------------------------------------
(* Specification SpecGate: the gate attenuation set to every percentage    *)

\* the largest percentage SetGateAttenuation accepts
MaxPercent == 100

SetGateAttenuationTo ==
  \E percentage \in 0 .. MaxPercent + 1 :
     PerformCommand(Cmd("SetGateAttenuation", percentage, 0, 0), -1)

GateNext == SetGateAttenuationTo

SpecGate == Init /\ [][GateNext]_vars

\* The gate attenuation was set in the state, to the percentage last.cmd.a.
GateSet(l) == l.op = "perform_command" /\ l.cmd.name = "SetGateAttenuation" /\ l.ok

\* C9: over the percentages 0..=100 the device value written for the gate
\* attenuation never rises when the percentage rises, is the first table
\* entry (-6) at 0 and the last, most negative entry (-61) at 100, and is
\* always an entry of the 26-entry table.
C9_GateAttenuationMapping ==
  [][GateSet(last')
       => LET percent == last'.cmd.a
              value   == goxlr'.effects["GateAttenuation"]
          IN  /\ Len(GATE_ATTENUATION) = 26
              /\ \E i \in 1 .. 26 : value = GATE_ATTENUATION[i]
              /\ percent < 100 => gate_attenuation_index(percent) \in 0 .. 25
              /\ percent = 0 => value = GATE_ATTENUATION[1] /\ value = -6
              /\ percent = 100
                   => /\ value = GATE_ATTENUATION[26] /\ value = -61
                      /\ \A i \in 1 .. 26 : GATE_ATTENUATION[i] >= value
              /\ (GateSet(last) /\ last.cmd.a <= percent)
                   => value <= goxlr.effects["GateAttenuation"]]_vars

\* The attenuation was set to 100 percent and the hardware took the value.
C9_Witness ==
  /\ GateSet(last) /\ last.cmd.a = 100
  /\ mic_profile.gate.attenuation = 100
  /\ goxlr.effects["GateAttenuation"] = -61

-----------------------------------------------------------------------------
(* Specification SpecTick: the polling loop with a fader's mute button and  *)
(* a sampler pad, with and without the audio playback subsystem, while      *)
(* hardware calls and snapshot reads fail                                   *)

TickButtons == {"Fader3Mute", "SamplerTopLeft"}

TickInit == \E audio_present \in BOOLEAN : Attached({}, {}, "Full", audio_present)

\* The samples that can stop playing before the tick.
Finishing == SUBSET audio_handler.playing

\* A tick in which the hardware works.
TickRead ==
  \E pressed \in NextPressed(TickButtons), finished \in Finishing :
     MonitorInputs(pressed, NoKnob, finished, 250, -1, TRUE)

\* A tick in which one hardware call fails.
TickBroken ==
  \E pressed \in NextPressed(TickButtons), finished \in Finishing, fuel \in 0 .. MaxFuel :
     MonitorInputs(pressed, NoKnob, finished, 250, fuel, TRUE)

\* A tick in which the snapshot cannot be read.
TickBlind ==
  \E finished \in Finishing : MonitorInputs(last_buttons, NoKnob, finished, 250, -1, FALSE)

TickNext == TickRead \/ TickBroken \/ TickBlind

SpecTick == TickInit /\ [][TickNext]_vars

-----------------------------------------------------------------------------
(* Claims checked under SpecTick                                           *)

\* The hardware calls of a log that failed.
FailedCalls(log) == {i \in 1 .. Len(log) : ~log[i].ok /\ log[i].op # "Err"}

\* The invocations of the button handlers in a log.
HandlerCalls(log) ==
  {i \in 1 .. Len(log) : log[i].op \in {"on_button_down", "on_button_up", "on_button_hold"}}

\* A hardware call failed inside a button handler.
FailedInHandler(log) == \E i \in FailedCalls(log), j \in HandlerCalls(log) : j < i

\* C11: a hardware error raised inside a button-down, button-up or
\* button-hold handler during a poll tick is swallowed: the tick still
\* invokes the handler of every other button it found pressed, released or
\* held, records the snapshot's pressed set as last_buttons, and
\* monitor_inputs returns success.
C11_HandlerErrorSwallowed ==
  [][(last'.op = "monitor_inputs" /\ FailedInHandler(last'.log))
       => /\ last'.ok
          /\ last_buttons' = last'.state.pressed
          /\ \A i \in FailedCalls(last'.log) :
                \E j \in 1 .. Len(last'.log) : j > i /\ last'.log[j].op = "error!"
          /\ \A b \in last'.state.pressed \ last_buttons :
                /\ Invocations(last'.log, "on_button_down", b) # {}
                /\ button_states'[b].press_time = now'
          /\ \A b \in last_buttons \ last'.state.pressed :
                /\ Invocations(last'.log, "on_button_up", b) # {}
                /\ button_states'[b] = [press_time |-> 0, hold_handled |-> FALSE]
          /\ \A b \in last'.state.pressed \cap last_buttons :
                (~button_states[b].hold_handled
                 /\ now' - button_states[b].press_time > HoldThreshold)
                  => /\ Invocations(last'.log, "on_button_hold", b) # {}
                     /\ button_states'[b].hold_handled]_vars

\* A hardware call failed in the handler of one button, and the handler of
\* another button ran after it in the same tick.
C11_Witness ==
  /\ last.op = "monitor_inputs" /\ last.ok
  /\ last_buttons = last.state.pressed
  /\ \E i \in FailedCalls(last.log), j \in HandlerCalls(last.log), k \in HandlerCalls(last.log) :
        j < i /\ i < k /\ last.log[j].key # last.log[k].key

\* The snapshot could not be read in the tick.
Unread(l) ==
  /\ l.op = "monitor_inputs"
  /\ \E i \in 1 .. Len(l.log) : l.log[i].op = "get_button_states" /\ ~l.log[i].ok

\* C14 as claimed: when the snapshot cannot be read in a tick,
\* monitor_inputs returns success, invokes no button handler and leaves
\* last_buttons, every button's press state, the Profile Store and the Mic
\* Profile Store unchanged.
C14_UnreadTickChangesNothing ==
  [][Unread(last')
       => /\ last'.ok
          /\ HandlerCalls(last'.log) = {}
          /\ last_buttons' = last_buttons
          /\ button_states' = button_states
          /\ profile' = profile
          /\ mic_profile' = mic_profile]_vars

\* The sample buttons whose playback ended before the tick resynced the lighting.
Stopped == {b \in profile.sample_active : b \notin audio_handler'.playing}

\* C14, amended: when the snapshot cannot be read in a tick, monitor_inputs
\* returns success, invokes no button handler and leaves last_buttons,
\* every button's press state and the Mic Profile Store unchanged, and the
\* Profile Store unchanged but for the active flag of the sample buttons
\* whose playback ended, which the resync before the read cleared; a button
\* released in a later tick gets its button-up handler with the press state
\* recorded before.
C14_UnreadTickKeepsPresses ==
  [][/\ Unread(last')
          => /\ last'.ok
             /\ HandlerCalls(last'.log) = {}
             /\ last_buttons' = last_buttons
             /\ button_states' = button_states
             /\ hist'.holds = hist.holds
             /\ profile' = [profile EXCEPT !.sample_active = @ \ Stopped]
             /\ mic_profile' = mic_profile
     /\ (last'.op = "monitor_inputs" /\ last'.state.ok /\ Clean(last'.log))
          => \A b \in last_buttons \ last'.state.pressed :
                \E i \in Invocations(last'.log, "on_button_up", b) :
                   last'.log[i].val = Bool2Int(button_states[b].hold_handled)]_vars

\* The snapshot could not be read in the tick in which the hold of a pressed
\* button fell due and the lighting was resynced for a sample that ended.
C14_Witness ==
  /\ Unread(last) /\ last.ok
  /\ \E i \in 1 .. Len(last.log) : last.log[i].op = "set_button_states"
  /\ \E b \in last_buttons :
        /\ ~button_states[b].hold_handled
        /\ now - button_states[b].press_time > HoldThreshold

\* C19: when the audio playback subsystem is absent, the release of a
\* sampler pad button is a silent no-op: the handler raises no error, the
\* sample state of the store does not change, and the button lighting is
\* pushed after the release as after any other.
C19_PadWithoutAudio ==
  [][\A b \in SamplerPadButtons :
       (/\ last'.op = "monitor_inputs"
        /\ ~audio_handler.present
        /\ FailedCalls(last'.log) = {}
        /\ Invocations(last'.log, "on_button_up", b) # {})
         => /\ \A i \in 1 .. Len(last'.log) : last'.log[i].op \notin {"Err", "error!"}
            /\ profile'.sample_active = profile.sample_active
            /\ audio_handler' = audio_handler
            /\ \E i \in Invocations(last'.log, "on_button_up", b) :
                  \E j \in 1 .. Len(last'.log) :
                     j > i /\ last'.log[j].op = "set_button_states"]_vars

\* The mute handler ran on fader f in the step, no call failed, and the
\* fader's button is lit afterwards.
MutedAgain(f) ==
  /\ last'.op = "monitor_inputs" /\ Clean(last'.log)
  /\ \E i \in 1 .. Len(last'.log) :
        last'.log[i].op = "handle_fader_mute" /\ last'.log[i].val = f
  /\ profile'.mute_buttons[f].state

\* C17: when a full mute of a fader stopped half way (set_volume succeeded,
\* set_channel_state failed) and the mute is repeated once the hardware
\* works, the state is that of a mute that succeeded the first time: the
\* channel is Muted at volume 0 in the hardware and the store, and
\* previous_volume is the volume the channel had before the first attempt.
C17_MuteIdempotent ==
  [][\A f \in FaderName :
       (hist.half_muted[f] >= 0 /\ MutedAgain(f))
         => /\ profile'.mute_buttons[f].previous_volume = hist.half_muted[f]
            /\ profile'.volumes[profile'.faders[f]] = 0
            /\ goxlr'.volume[profile'.faders[f]] = 0
            /\ goxlr'.state[profile'.faders[f]] = "Muted"]_vars

-----------------------------------------------------------------------------
(* Specification SpecKnob: the polling loop with a sampler pad and the      *)
(* gender encoder, while the pushes the tick makes on its own fail          *)

KnobButtons == {"SamplerTopLeft"}

KnobInit == Attached({}, {}, "Full", TRUE)

KnobTick ==
  \E pressed \in NextPressed(KnobButtons), finished \in Finishing :
     MonitorInputs(pressed, NoKnob, finished, 250, -1, TRUE)

\* A tick before which the user turned the gender encoder; the push of the
\* changed effect parameter may fail.
KnobTurned ==
  \E pressed \in NextPressed(KnobButtons), position \in 0 .. 1, fuel \in {-1, 1} :
     MonitorInputs(pressed, <<"encoder", "Gender", position>>, {}, 250, fuel, TRUE)

\* A tick in which the first hardware call after the driver check fails.
KnobResync ==
  \E pressed \in NextPressed(KnobButtons), finished \in Finishing :
     MonitorInputs(pressed, NoKnob, finished, 250, 1, TRUE)

KnobNext == KnobTick \/ KnobTurned \/ KnobResync

SpecKnob == KnobInit /\ [][KnobNext]_vars

\* A hardware call the tick made before it ran any button handler failed:
\* the lighting push of the sample resync or the push of an encoder's effect.
FailedBeforeHandlers(log) ==
  \E i \in FailedCalls(log) :
     /\ log[i].op \in {"set_button_states", "set_effect_values"}
     /\ \A j \in HandlerCalls(log) : i < j

\* C12: a hardware error in the processing a tick does on its own (pushing
\* the effect parameter of a changed encoder, resyncing the sample-button
\* lighting) is swallowed: monitor_inputs returns success, the buttons the
\* snapshot shows pressed or released get their handlers and last_buttons
\* becomes the snapshot's pressed set.
C12_PollErrorSwallowed ==
  [][(last'.op = "monitor_inputs" /\ FailedBeforeHandlers(last'.log))
       => /\ last'.ok
          /\ last_buttons' = last'.state.pressed
          /\ \A b \in last'.state.pressed \ last_buttons :
                Invocations(last'.log, "on_button_down", b) # {}
          /\ \A b \in last_buttons \ last'.state.pressed :
                Invocations(last'.log, "on_button_up", b) # {}]_vars

-----------------------------------------------------------------------------
(* Specification SpecDirect: direct commands that write a store and then    *)
(* the hardware                                                             *)

\* apply_routing writes the left and the right side: either write can fail
SetRouter ==
  \E enabled \in BOOLEAN, fuel \in -1 .. 1 :
     PerformCommand(Cmd("SetRouter", "Music", "Headphones", enabled), fuel)

SetMicrophoneGain ==
  \E gain \in {20, 40}, fuel \in {-1, 0} :
     PerformCommand(Cmd("SetMicrophoneGain", 1, gain, 0), fuel)

\* the microphone parameter is pushed first, the effect key second
GateThreshold ==
  \E value \in {-59, 0}, fuel \in -1 .. 1 :
     PerformCommand(Cmd("SetGateThreshold", value, 0, 0), fuel)

DirectNext == SetRouter \/ SetMicrophoneGain \/ GateThreshold

SpecDirect == Init /\ [][DirectNext]_vars

-----------------------------------------------------------------------------
(* Claims checked under SpecDirect                                         *)

\* The command of that name ran in the step and one of its hardware writes failed.
WriteFailed(name) == Commanded(name) /\ FailedCalls(last'.log) # {}

\* C13: when the hardware write of SetRouter, SetMicrophoneGain or
\* SetGateThreshold fails after the command wrote the store, perform_command
\* returns the error to the caller and the store keeps the new value: both
\* stores are as the command leaves them when every write succeeds.
C13_NoRollback ==
  [][/\ WriteFailed("SetRouter")
          => (last'.cmd.b \in profile'.router[last'.cmd.a]) <=> last'.cmd.c
     /\ WriteFailed("SetMicrophoneGain")
          => /\ mic_profile'.mic_type = last'.cmd.a
             /\ mic_profile'.mic_gains[last'.cmd.a] = last'.cmd.b
     /\ WriteFailed("SetGateThreshold")
          => mic_profile'.gate.threshold = last'.cmd.a
     /\ (WriteFailed("SetRouter") \/ WriteFailed("SetMicrophoneGain")
            \/ WriteFailed("SetGateThreshold"))
          => /\ ~last'.ok
             /\ \A i \in 1 .. Len(last'.log) : last'.log[i].op # "error!"
             /\ profile' = perform_command(Dev, last'.cmd).profile
             /\ mic_profile' = perform_command(Dev, last'.cmd).mic_profile]_vars

\* SetGateThreshold failed on its second write: the store and the microphone
\* parameter have the new threshold, the effect key still has the old one.
C13_Witness ==
  /\ last.op = "perform_command" /\ last.cmd.name = "SetGateThreshold" /\ ~last.ok
  /\ mic_profile.gate.threshold = -59
  /\ \E i \in FailedCalls(last.log) : last.log[i].op = "set_effect_values"
  /\ goxlr.effects["GateThreshold"] # -59

-----------------------------------------------------------------------------
(* Specification SpecSave: saving and loading the mic profile while the     *)
(* gate threshold changes                                                   *)

SaveInit == \E m \in {{}, {"Studio"}} : Attached({}, m, "Full", FALSE)

GateOpened ==
  \E value \in {-59, 0} : PerformCommand(Cmd("SetGateThreshold", value, 0, 0), -1)

SaveMicProfile == PerformCommand(Cmd("SaveMicProfile", 0, 0, 0), -1)

SaveMicProfileAs ==
  \E name \in {"Studio", "Stage"} : PerformCommand(Cmd("SaveMicProfileAs", name, 0, 0), -1)

LoadMicProfileSaved ==
  \E name \in {"Studio", "Stage"} : PerformCommand(Cmd("LoadMicProfile", name, 0, 0), -1)

SaveNext == GateOpened \/ SaveMicProfile \/ SaveMicProfileAs \/ LoadMicProfileSaved

SpecSave == SaveInit /\ [][SaveNext]_vars

\* C18: SaveMicProfileAs under a name whose file exists returns an error
\* and changes nothing (the file, the adapter's profile name and the mic
\* profile name in the settings stay); SaveMicProfile writes the loaded mic
\* profile over the file of the current name.
C18_SaveCollision ==
  [][/\ (Commanded("SaveMicProfileAs") /\ last'.cmd.a \in DOMAIN settings.mic_profile_files)
          => /\ ~last'.ok
             /\ Rejected(last'.log)
             /\ settings' = settings
             /\ mic_profile' = mic_profile
     /\ (Commanded("SaveMicProfile") /\ settings.mic_profile_name # {})
          => LET name == unwrap_or(settings.mic_profile_name, "")
             IN  /\ last'.ok
                 /\ settings'.mic_profile_files[name] = [mic_profile EXCEPT !.name = name]
                 /\ settings'.mic_profile_name = settings.mic_profile_name]_vars

\* A forced save overwrote the file Studio, the gate threshold changed, and
\* a save as Studio was refused.
C18_Witness ==
  /\ last.op = "perform_command" /\ last.cmd.name = "SaveMicProfileAs"
  /\ last.cmd.a = "Studio" /\ ~last.ok
  /\ settings.mic_profile_files["Studio"] # StudioMicProfile
  /\ settings.mic_profile_files["Studio"] # [mic_profile EXCEPT !.name = "Studio"]

-----------------------------------------------------------------------------
(* Specification SpecRebind: faders C and D are given other channels while  *)
(* the mute button of fader C and the cough button are tapped and held      *)

RebindButtons == {"Fader3Mute", "MicrophoneMute"}

RebindTick ==
  \E pressed \in NextPressed(RebindButtons) : MonitorInputs(pressed, NoKnob, {}, 250, -1, TRUE)

\* set_fader, sent after a tick that found no button pressed
Rebind ==
  /\ last.op = "monitor_inputs" /\ last_buttons = {}
  /\ \E fader \in {2, 3}, channel \in {"Music", "Game"} :
        PerformCommand(Cmd("SetFader", fader, channel, 0), -1)

RebindNext == RebindTick \/ Rebind

SpecRebind == Init /\ [][RebindNext]_vars

\* The step is a successful set_fader(f, c) with c bound to no fader and not
\* the channel of f.
Rebound ==
  /\ last'.op = "perform_command" /\ last'.cmd.name = "SetFader" /\ last'.ok
  /\ \A f \in FaderName : profile.faders[f] # last'.cmd.b

\* The destinations enabled in the routing the hardware holds for an input.
RoutedTo(hw, input) ==
  {o \in BasicOutputDevice :
     hw.routing[input]["left"][o] = GainEnabled /\ hw.routing[input]["right"][o] = GainEnabled}

\* C16: after a successful set_fader(f, c) where c was bound to no fader,
\* the mute button of f is not muted and f carries c; the channel that was
\* on f was unwound before the rebinding: after a full mute its volume is
\* the one recorded at the mute, after a partial mute the routing pushed for
\* it is the persisted routing with no destination suppressed; the state
\* and the volume of c are untouched.
C16_RebindUnwindsMute ==
  [][Rebound =>
       LET f      == last'.cmd.a
           c      == last'.cmd.b
           old    == profile.faders[f]
           button == profile.mute_buttons[f]
       IN  /\ profile'.faders[f] = c
           /\ ~profile'.mute_buttons[f].state /\ ~profile'.mute_buttons[f].blink
           /\ goxlr'.state[c] = goxlr.state[c]
           /\ goxlr'.volume[c] = goxlr.volume[c]
           /\ profile'.volumes[c] = profile.volumes[c]
           /\ button.state
                => \E i \in Calls(last'.log, "handle_fader_mute", "tap", f) :
                      \A j \in Calls(last'.log, "set_fader", c, f) : i < j
           /\ (button.state /\ FullMute(button))
                => /\ profile'.volumes[old] = button.previous_volume
                   /\ goxlr'.volume[old] = button.previous_volume
                   /\ goxlr'.state[old] = "Unmuted"
           /\ (button.state /\ ~FullMute(button))
                => RoutedTo(goxlr', basic_input(old)) = profile.router[basic_input(old)]]_vars

-----------------------------------------------------------------------------
(* Claims checked under SpecKnob: the press bookkeeping of a tick          *)

\* The tick read the snapshot.
SnapshotRead(l) ==
  /\ l.op = "monitor_inputs"
  /\ \E i \in 1 .. Len(l.log) : l.log[i].op = "get_button_states" /\ l.log[i].ok

\* C21: after every tick in which the snapshot was read, last_buttons is the
\* snapshot's pressed set and every button that is not in last_buttons has
\* its press state cleared (press_time = 0, hold_handled = FALSE), so that
\* hold_handled is set only for buttons that are pressed.
C21_PressBookkeeping ==
  [][SnapshotRead(last')
       => /\ last_buttons' = last'.state.pressed
          /\ \A b \in Buttons \ last_buttons' :
                button_states'[b] = [press_time |-> 0, hold_handled |-> FALSE]
          /\ \A b \in Buttons : button_states'[b].hold_handled => b \in last'.state.pressed]_vars

-----------------------------------------------------------------------------
(* Specification SpecMute: the mute button of the Music fader and routing   *)
(* commands, started from a profile that was saved while Music was muted    *)
(* to the stream; every hardware call succeeds                              *)

\* A profile saved while the Music fader was muted to the stream.
MutedProfile ==
  [DefaultProfile EXCEPT
     !.name = "Muted",
     !.mute_buttons[2] = [state |-> TRUE, blink |-> FALSE, mute_function |-> "ToStream",
                          previous_volume |-> 0]]

MutedSettings ==
  [Settings0({"Muted"}, {}) EXCEPT
     !.profile_files = [n \in {"Stream", "Muted"} |->
                          IF n = "Stream" THEN StreamProfile ELSE MutedProfile]]

MuteInit == AttachedAs(new(Hardware0("Full"), {"Muted"}, {}, MutedSettings, FALSE))

MuteTick ==
  \E pressed \in NextPressed({"Fader3Mute"}) : MonitorInputs(pressed, NoKnob, {}, 250, -1, TRUE)

\* SetRouter on an output of Music, sent while no button is pressed
RouteMusic ==
  /\ last_buttons = {}
  /\ \E output \in {"Headphones", "BroadcastMix"}, enabled \in BOOLEAN :
        PerformCommand(Cmd("SetRouter", "Music", output, enabled), -1)

MuteNext == MuteTick \/ RouteMusic

SpecMute == MuteInit /\ [][MuteNext]_vars

\* The output that a partial mute with the given function suppresses.
MuteTarget(mute_function) ==
  CASE mute_function = "ToStream"    -> "BroadcastMix"
    [] mute_function = "ToVoiceChat" -> "ChatMic"
    [] mute_function = "ToPhones"    -> "Headphones"
    [] mute_function = "ToLineOut"   -> "LineOut"

\* The mute buttons that act on an input: those of the faders carrying its
\* channel, and the cough button for the microphone.
MuteSources(input) ==
  {profile.mute_buttons[f] : f \in {g \in FaderName : profile.faders[g] = input_channel_name(input)}}
  \cup (IF input = "Microphone"
        THEN {[state |-> profile.mute_chat.state, blink |-> profile.mute_chat.blink,
               mute_function |-> profile.mute_chat.mute_function, previous_volume |-> 0]}
        ELSE {})

\* The outputs suppressed by the active partial mutes on an input.
Suppressed(input) ==
  {MuteTarget(b.mute_function) :
     b \in {x \in MuteSources(input) : x.state /\ ~x.blink /\ x.mute_function # "All"}}

\* The outputs that a full mute entered by a hold from a partial mute may
\* still suppress while it lasts.
HeldOver(input) ==
  {MuteTarget(b.mute_function) :
     b \in {x \in MuteSources(input) : x.state /\ x.blink /\ x.mute_function # "All"}}

\* C23: in every reachable state, for every input the routing last pushed to
\* the hardware is the persisted routing of the input without exactly the
\* outputs named by the active partial mutes of the fader (or cough button)
\* that carries it; no suppression remains once its mute is over, as after a
\* partial mute, a hold and the releasing tap.
C23_RoutingReflectsMutes ==
  \A input \in BasicInputDevice :
     /\ RoutedTo(goxlr, input) \subseteq profile.router[input] \ Suppressed(input)
     /\ profile.router[input] \ (Suppressed(input) \cup HeldOver(input))
          \subseteq RoutedTo(goxlr, input)

-----------------------------------------------------------------------------
(* Specification SpecRoute: routing writes while the effect bank, and with  *)
(* it the hard-tune source, changes                                         *)

\* A profile whose second effect bank tunes to the Music input only.
TunedProfile ==
  [DefaultProfile EXCEPT !.name = "Tuned", !.effects["Preset2"].hardtune_source = "Music"]

TunedSettings ==
  [Settings0({"Tuned"}, {}) EXCEPT
     !.profile_files = [n \in {"Stream", "Tuned"} |->
                          IF n = "Stream" THEN StreamProfile ELSE TunedProfile]]

RouteInit == AttachedAs(new(Hardware0("Full"), {"Tuned"}, {}, TunedSettings, FALSE))

\* The user selects the first or the second effect bank.
RouteTick ==
  \E pressed \in NextPressed({"EffectSelect1", "EffectSelect2"}) :
     MonitorInputs(pressed, NoKnob, {}, 250, -1, TRUE)

\* SetRouter, sent while no button is pressed
RouteInput ==
  /\ last_buttons = {}
  /\ \E input \in {"Music", "Game", "Microphone"}, enabled \in BOOLEAN :
        PerformCommand(Cmd("SetRouter", input, "Headphones", enabled), -1)

RouteNext == RouteTick \/ RouteInput

SpecRoute == RouteInit /\ [][RouteNext]_vars

\* The hard-tune gain of an input under a hard-tune source.
HardTuneGain(source, input) ==
  IF source = "All"
  THEN IF input \in {"Music", "Game", "LineIn", "System"} THEN 4 ELSE 0
  ELSE IF input = source THEN 16 ELSE 0

\* C25: in every routing write the hard-tune entry of the row is 0x04 for the
\* inputs Music, Game, LineIn and System and 0 for the others if the active
\* hard-tune source is `all', and otherwise 0x10 for the configured source
\* input and 0 for the others; every other destination has 0x20 on the left
\* and on the right side if it is enabled, and 0 if it is disabled.
C25_RoutingRow ==
  [][\A input \in BasicInputDevice :
       RoutingPushed(input)
         => \A side \in {"left", "right"} :
               /\ goxlr'.routing[input][side]["HardTune"]
                    = HardTuneGain(profile'.effects[profile'.effect_bank].hardtune_source, input)
               /\ \A o \in BasicOutputDevice :
                     goxlr'.routing[input][side][o]
                       = IF o \in profile'.router[input] THEN 32 ELSE 0]_vars

\* The routing of Music was written while the hard-tune source was Music
\* alone, with the Headphones disabled.
C25_Witness ==
  /\ last.op = "perform_command" /\ last.cmd.name = "SetRouter" /\ last.cmd.a = "Music"
  /\ last.ok /\ ~last.cmd.c
  /\ get_active_hardtune_source(Dev) = "Music"
  /\ goxlr.routing["Music"]["left"]["HardTune"] = 16
  /\ goxlr.routing["Music"]["right"]["Headphones"] = 0
  /\ goxlr.routing["Music"]["right"]["LineOut"] = 32

-----------------------------------------------------------------------------
(* Specification SpecCough: the cough button and the mute button of the     *)
(* microphone's fader under the polling loop, with the commands that        *)
(* change the cough button's mode and mute function                         *)

CoughButtons == {"MicrophoneMute", "Fader1Mute"}

CoughTick ==
  \E pressed \in NextPressed(CoughButtons) : MonitorInputs(pressed, NoKnob, {}, 250, -1, TRUE)

\* SetCoughIsHold, sent while no button is pressed
SetCoughIsHold ==
  /\ last_buttons = {}
  /\ \E is_hold \in BOOLEAN : PerformCommand(Cmd("SetCoughIsHold", is_hold, 0, 0), -1)

\* SetCoughMuteFunction, sent while no button is pressed
SetCoughMuteFunction ==
  /\ last_buttons = {}
  /\ \E mute_function \in {"All", "ToPhones"} :
        PerformCommand(Cmd("SetCoughMuteFunction", mute_function, 0, 0), -1)

CoughNext == CoughTick \/ SetCoughIsHold \/ SetCoughMuteFunction

SpecCough == Init /\ [][CoughNext]_vars

\* The cough handler ran in the step for a release; held_called says whether
\* the hold handler had run in that press cycle.
CoughReleased(held_called) ==
  /\ Coughed("release")
  /\ \E i \in 1 .. Len(last'.log) :
        /\ last'.log[i].op = "handle_cough_mute" /\ last'.log[i].key = "release"
        /\ last'.log[i].val = Bool2Int(held_called)

\* No mute handler of a fader ran in the step.
OnlyCough == \A i \in 1 .. Len(last'.log) : last'.log[i].op # "handle_fader_mute"

\* The step left the mute state of the store and of the hardware as it was.
MuteUntouched ==
  /\ profile' = profile
  /\ goxlr'.state = goxlr.state
  /\ goxlr'.routing = goxlr.routing
  /\ goxlr'.volume = goxlr.volume

\* The routing the hardware holds for the microphone is the persisted
\* routing, without the outputs in `without'.
MicRouted(without) ==
  RoutedTo(goxlr', "Microphone") = profile.router["Microphone"] \ without

\* What the cough button does in toggle mode.  The tap that ends a mute
\* entered by a hold pushes the routing of the microphone again: in every
\* case if always is TRUE, else if the mute function is not All.
ToggleMode(always) ==
  LET c == profile.mute_chat
  IN  (c.toggle /\ OnlyCough) =>
        /\ Coughed("press") => MuteUntouched
        /\ Coughed("held")
             => /\ profile'.mute_chat.state /\ profile'.mute_chat.blink
                /\ goxlr'.state["Mic"] = "Muted"
        /\ CoughReleased(TRUE) => MuteUntouched
        /\ (CoughReleased(FALSE) /\ ~c.state /\ ~c.blink)
             => /\ profile'.mute_chat.state /\ ~profile'.mute_chat.blink
                /\ (c.mute_function = "All") => goxlr'.state["Mic"] = "Muted"
                /\ (c.mute_function # "All")
                     => MicRouted({MuteTarget(c.mute_function)})
        /\ (CoughReleased(FALSE) /\ c.state /\ ~c.blink)
             => /\ ~profile'.mute_chat.state /\ ~profile'.mute_chat.blink
                /\ (c.mute_function = "All" /\ ~mic_muted_by_fader(Dev))
                     => goxlr'.state["Mic"] = "Unmuted"
                /\ (c.mute_function # "All") => MicRouted({})
        /\ (CoughReleased(FALSE) /\ c.blink)
             => /\ ~profile'.mute_chat.state /\ ~profile'.mute_chat.blink
                /\ (~mic_muted_by_fader(Dev)) => goxlr'.state["Mic"] = "Unmuted"
                /\ mic_muted_by_fader(Dev) => goxlr'.state["Mic"] = goxlr.state["Mic"]
                /\ (always \/ c.mute_function # "All")
                     => RoutingPushed("Microphone") /\ MicRouted({})

\* C27 as claimed: in toggle mode the press of the cough button changes
\* nothing, a release without a hold toggles between unmuted and muted, a
\* hold forces full mute with blink, the release that ends that hold changes
\* nothing, and the next tap clears light and blink, unmutes Mic unless its
\* fader mutes it, and pushes the routing of the microphone again.
C27_TapReappliesRouting == [][ToggleMode(TRUE)]_vars

\* C27, amended: as claimed, but the tap that ends the hold-triggered mute
\* pushes the routing of the microphone again if the mute function is not
\* All.
C27_TapReappliesPartialRouting == [][ToggleMode(FALSE)]_vars

\* In toggle mode with a partial mute function, a tap ended a mute that a
\* hold had forced: it unmuted Mic and pushed the microphone's routing.
C27_Witness ==
  /\ last.op = "monitor_inputs" /\ Clean(last.log)
  /\ profile.mute_chat.toggle /\ profile.mute_chat.mute_function # "All"
  /\ ~profile.mute_chat.state /\ ~profile.mute_chat.blink
  /\ \E i \in 1 .. Len(last.log) :
        /\ last.log[i].op = "handle_cough_mute" /\ last.log[i].key = "release"
        /\ last.log[i].val = 0
  /\ Calls(last.log, "set_channel_state", "Mic", 0) # {}
  /\ Calls(last.log, "set_routing", "Microphone", 0) # {}
  /\ hist.holds["MicrophoneMute"] = 0

\* The fader that carries the microphone is in full mute in the store p.
FaderMutesMic(p) == \E f \in FaderName : p.faders[f] = "Mic" /\ FullMute(p.mute_buttons[f])

\* The calls of a log that set the Mic channel Unmuted, failed ones included.
MicUnmutes(log) ==
  {i \in 1 .. Len(log) :
     log[i].op = "set_channel_state" /\ log[i].key = "Mic" /\ log[i].val = 0}

-----------------------------------------------------------------------------
(* Claims checked under Spec: the volume reconciliation of a tick          *)

\* C29: the hardware is authoritative for the physical volume: after the
\* volume reconciliation of a tick that read the snapshot, the stored volume
\* of the channel of each fader is the snapshot volume of that fader and the
\* stored volume of every channel on no fader is as before; a tick that runs
\* no button handler leaves the stored volumes so.
C29_HardwareVolumeWins ==
  [][SnapshotRead(last')
       => LET d == update_volumes_to(Dev, last'.state.volumes)
          IN  /\ \A f \in FaderName :
                    d.profile.volumes[profile.faders[f]] = last'.state.volumes[f]
              /\ \A c \in ChannelName :
                    (\A f \in FaderName : profile.faders[f] # c)
                      => d.profile.volumes[c] = profile.volumes[c]
              /\ (HandlerCalls(last'.log) = {} /\ FailedCalls(last'.log) = {})
                   => profile'.volumes = d.profile.volumes]_vars

\* The user moved the fader of the microphone, and the tick stored the
\* volume the snapshot reported for it.
C29_Witness ==
  /\ SnapshotRead(last) /\ HandlerCalls(last.log) = {}
  /\ last.state.volumes[0] = 1
  /\ profile.faders[0] = "Mic" /\ profile.volumes["Mic"] = 1
  /\ goxlr.volume["Mic"] = 1
  /\ profile.volumes["Game"] = MaxVolume

-----------------------------------------------------------------------------
(* Claims checked under SpecCmd: the keys a command pushes                 *)

\* The (key, value) pairs that the calls of the given operation carried.
Pushed(log, op) == UNION {log[i].kv : i \in {j \in 1 .. Len(log) : log[j].op = op}}

\* C30: a successful SetCompressorThreshold pushes exactly the keys the
\* change affects: the compressor-threshold microphone parameter and the
\* compressor-threshold effect key, each with the threshold now stored, and
\* no other key.
C30_ThresholdKeys ==
  [][(Commanded("SetCompressorThreshold") /\ last'.ok)
       => /\ mic_profile'.compressor.threshold = last'.cmd.a
          /\ Pushed(last'.log, "set_mic_param")
               = {<<"CompressorThreshold", <<"f32", last'.cmd.a>>>>}
          /\ Pushed(last'.log, "set_effect_values")
               = {<<"CompressorThreshold", last'.cmd.a>>}]_vars

-----------------------------------------------------------------------------
(* Specification SpecFn: the mute function of the Music fader is changed    *)
(* while its mute button is tapped and held, started from a profile that    *)
(* was saved while Music was muted to the stream                            *)

FnTick ==
  \E pressed \in NextPressed({"Fader3Mute"}) : MonitorInputs(pressed, NoKnob, {}, 250, -1, TRUE)

SetFaderMuteFunction ==
  \E behaviour \in {"All", "ToStream", "ToPhones"} :
     PerformCommand(Cmd("SetFaderMuteFunction", 2, behaviour, 0), -1)

\* The same command when its first or second hardware call fails.
SetFaderMuteFunctionFailing ==
  \E behaviour \in {"All", "ToPhones"}, fuel \in 0 .. 1 :
     PerformCommand(Cmd("SetFaderMuteFunction", 2, behaviour, 0), fuel)

FnNext == FnTick \/ SetFaderMuteFunction \/ SetFaderMuteFunctionFailing

SpecFn == MuteInit /\ [][FnNext]_vars

\* The buttons whose lighting shows a mute or the swear button.
MuteLights == FaderMuteButtons \cup {"MicrophoneMute", "Bleep"}

\* C31: after every poll tick and every successful command, the lighting
\* last pushed to the hardware for the mute buttons, the cough button and
\* the swear button is the lighting derived from the current Profile Store;
\* a command that unwinds a fader mute does not leave the mute light on.
C31_LightingCurrent ==
  (last.op \in {"monitor_inputs", "perform_command"} /\ last.ok)
    => \A b \in MuteLights : goxlr.buttons[b] = create_button_states(Dev)[b]

\* The step is a successful SetFaderMuteFunction.
FunctionSet == Commanded("SetFaderMuteFunction") /\ last'.ok

\* C32: after a successful SetFaderMuteFunction(f, b) with b different from
\* the function of f, the fader is not muted and its function is b; a full
\* mute was unwound with the volume recorded at the mute, and the routing
\* the hardware holds for the channel has no destination suppressed under
\* the old function; with b equal to the function of f nothing changes.
C32_FunctionChangeUnmutes ==
  [][FunctionSet =>
       LET f       == last'.cmd.a
           b       == last'.cmd.b
           old     == profile.mute_buttons[f]
           channel == profile.faders[f]
       IN  IF b = old.mute_function
           THEN profile' = profile /\ goxlr' = goxlr
           ELSE /\ ~profile'.mute_buttons[f].state /\ ~profile'.mute_buttons[f].blink
                /\ profile'.mute_buttons[f].mute_function = b
                /\ FullMute(old)
                     => /\ goxlr'.volume[channel] = old.previous_volume
                        /\ profile'.volumes[channel] = old.previous_volume
                /\ (old.state /\ old.mute_function # "All")
                     => RoutedTo(goxlr', basic_input(channel))
                          = profile.router[basic_input(channel)]]_vars

-----------------------------------------------------------------------------
(* Claims checked under SpecCough: the commands that change the cough       *)
(* button's behaviour                                                       *)

\* The step is a successful command that changes the cough button's mute
\* function, or sets its mode.
CoughChanged ==
  /\ last'.ok
  /\ \/ Commanded("SetCoughMuteFunction") /\ last'.cmd.a # profile.mute_chat.mute_function
     \/ Commanded("SetCoughIsHold")

\* No fader that carries the microphone mutes a part of its routing.
NoPartialMicMute(p) ==
  \A f \in FaderName :
     p.faders[f] = "Mic" => ~(p.mute_buttons[f].state /\ p.mute_buttons[f].mute_function # "All")

\* C33: after a successful SetCoughMuteFunction with a changed function, or
\* SetCoughIsHold, in toggle mode and in press-and-hold mode, the cough
\* button is not in a muted state, the new behaviour is stored, and the
\* cough button leaves the Mic channel neither muted nor with a destination
\* of its routing suppressed.
C33_CoughChangeUnmutes ==
  [][CoughChanged =>
       /\ ~profile'.mute_chat.state /\ ~profile'.mute_chat.blink
       /\ Commanded("SetCoughMuteFunction")
            => profile'.mute_chat.mute_function = last'.cmd.a
       /\ Commanded("SetCoughIsHold") => profile'.mute_chat.toggle = ~last'.cmd.a
       /\ ~FaderMutesMic(profile) => goxlr'.state["Mic"] = "Unmuted"
       /\ NoPartialMicMute(profile)
            => RoutedTo(goxlr', "Microphone") = profile.router["Microphone"]]_vars

-----------------------------------------------------------------------------
(* Claims checked under SpecSwap: the fader assignment of the Profile Store *)

\* The faders that carry the microphone.
MicCarriers == {f \in FaderName : profile.faders[f] = "Mic"}

\* C34: in every state reached by set_fader commands, the stored mic fader
\* id is the slot of the fader that carries the Mic channel, and it is 4
\* exactly when no fader carries Mic.
C34_MicFaderIdFollows ==
  IF MicCarriers = {} THEN get_mic_fader_id(Dev) = NoMicFader
  ELSE get_mic_fader_id(Dev) \in MicCarriers

\* C35: the fader assignment of the Profile Store stays injective: after any
\* sequence of set_fader commands, failed ones included, no two faders are
\* assigned the same channel.
C35_AssignmentInjective ==
  \A f, g \in FaderName : f # g => profile.faders[f] # profile.faders[g]

\* A swap of the faders A and D whose hardware write failed: the
\* store holds the switched assignment, with four distinct channels.
C35_Witness ==
  /\ last.op = "perform_command" /\ last.cmd.name = "SetFader" /\ ~last.ok
  /\ \E i \in 1 .. Len(last.log) : last.log[i].op = "set_fader" /\ ~last.log[i].ok
  /\ profile.faders[0] = "System" /\ profile.faders[3] = "Mic"
  /\ Cardinality({profile.faders[f] : f \in FaderName}) = 4

-----------------------------------------------------------------------------
(* Claims checked under SpecRoute: the encoders after a bank switch         *)

\* The stored value that load_effects writes to an encoder.
StoredEncoder(d, encoder) ==
  get_encoder_value(d, CASE encoder = "Pitch" -> "pitch" [] encoder = "Gender" -> "gender"
                         [] encoder = "Reverb" -> "reverb" [] OTHER -> "echo")

\* The encoders of the hardware hold the stored values of the active bank,
\* as load_effects wrote them, and the tick's snapshot reports them.
ReadBack ==
  /\ SnapshotRead(last')
  /\ \A e \in EncoderName :
        /\ goxlr.encoders[e] = U8(StoredEncoder(Dev, e))
        /\ last'.state.encoders[e] = I8(goxlr.encoders[e])

\* C36: reconciliation is a fixpoint: when the encoders hold the stored
\* pitch, gender, reverb and echo values, the reconciliation of a tick that
\* reads back those values changes no stored effect value and pushes no
\* effect parameter, also with hard-tune enabled or in narrow pitch mode; a
\* tick that runs no button handler leaves the effects as they were.
C36_ReconciliationFixpoint ==
  [][ReadBack =>
       LET d == update_encoders_to(Dev, last'.state.encoders)
       IN  /\ d.profile.effects = profile.effects
           /\ d.log = <<>>
           /\ HandlerCalls(last'.log) = {}
                => /\ profile'.effects = profile.effects
                   /\ Pushed(last'.log, "set_effect_values") = {}]_vars

-----------------------------------------------------------------------------
(* Claims checked under SpecDirect: the microphone gain                     *)

\* What SetMicrophoneGain(t, g) does to the Mic Profile Store and pushes:
\* the gain of t is g, the gains of the other types are as before, and the
\* gain handed to the hardware is the stored gain of the selected type.
\* The selected type is left as it was if keeps_type is TRUE, else it is t.
GainSet(keeps_type) ==
  Commanded("SetMicrophoneGain") =>
    LET t == last'.cmd.a
        g == last'.cmd.b
        selected == mic_profile'.mic_type
    IN  /\ mic_profile'.mic_gains[t] = g
        /\ \A u \in MicrophoneType \ {t} : mic_profile'.mic_gains[u] = mic_profile.mic_gains[u]
        /\ mic_profile'.mic_type = IF keeps_type THEN mic_profile.mic_type ELSE t
        /\ \A i \in 1 .. Len(last'.log) :
              last'.log[i].op = "set_microphone_gain"
                => last'.log[i].val = mic_profile'.mic_gains[selected]
        /\ last'.ok => goxlr'.mic_gain = <<selected, mic_profile'.mic_gains[selected]>>

\* C37 as claimed: SetMicrophoneGain(t, g) stores g as the gain of type t and
\* leaves the selected type and the gains of the other two types unchanged;
\* the gain pushed is the gain of the selected type.
C37_GainLeavesType == [][GainSet(TRUE)]_vars

\* C37, amended: SetMicrophoneGain(t, g) selects type t, stores g as the gain
\* of type t and leaves the gains of the other two types unchanged; the gain
\* pushed is the gain of the selected type.
C37_GainSelectsType == [][GainSet(FALSE)]_vars

\* The gain of the condenser microphone was set to 40 after it had been 20:
\* the condenser is selected, its gain was pushed, the other gains are 0.
C37_Witness ==
  /\ last.op = "perform_command" /\ last.cmd = Cmd("SetMicrophoneGain", 1, 40, 0) /\ last.ok
  /\ mic_profile.mic_type = 1
  /\ mic_profile.mic_gains = [t \in MicrophoneType |-> IF t = 1 THEN 40 ELSE 0]
  /\ goxlr.mic_gain = <<1, 40>>
  /\ Len(last.log) = 1

-----------------------------------------------------------------------------
(* Specification SpecMic: the commands that set the compressor's ratio and  *)
(* attack time and switch the noise gate on and off                         *)

\* CompressorRatio and CompressorAttackTime `as u8'
CompressorSteps == 0 .. 2

SetCompressorRatio ==
  \E ratio \in CompressorSteps, fuel \in HwFuel :
     PerformCommand(Cmd("SetCompressorRatio", ratio, 0, 0), fuel)

SetCompressorAttack ==
  \E value \in CompressorSteps, fuel \in HwFuel :
     PerformCommand(Cmd("SetCompressorAttack", value, 0, 0), fuel)

SetGateActive ==
  \E active \in BOOLEAN, fuel \in HwFuel :
     PerformCommand(Cmd("SetGateActive", active, 0, 0), fuel)

MicNext == SetCompressorRatio \/ SetCompressorAttack \/ SetGateActive

MicInit == \E m \in {{}, {"Studio"}} : Attached({}, m, "Full", FALSE)

SpecMic == MicInit /\ [][MicNext]_vars

\* The keys of the gate and the compressor, and the stored field each names.
GateCompressorKeys ==
  {"GateThreshold", "GateAttack", "GateRelease", "GateAttenuation", "CompressorThreshold",
   "CompressorRatio", "CompressorAttack", "CompressorRelease", "CompressorMakeUpGain"}

NamedField(m, key) ==
  CASE key = "GateThreshold" -> m.gate.threshold
    [] key = "GateAttack" -> m.gate.attack
    [] key = "GateRelease" -> m.gate.release
    [] key = "GateAttenuation" -> m.gate.attenuation
    [] key = "CompressorThreshold" -> m.compressor.threshold
    [] key = "CompressorRatio" -> m.compressor.ratio
    [] key = "CompressorAttack" -> m.compressor.attack
    [] key = "CompressorRelease" -> m.compressor.release
    [] key = "CompressorMakeUpGain" -> m.compressor.makeup

\* C38: every microphone parameter key of the gate and the compressor is
\* computed from its own stored field: between two states of the Mic
\* Profile Store the value of a key is the same if the field it names is the
\* same; a changed compressor attack changes the CompressorAttack value, and
\* a changed compressor ratio does not.
C38_ParamFromOwnField ==
  [][\A key \in GateCompressorKeys :
       LET before == get_param_value(Dev, key)
           after  == get_param_value([Dev EXCEPT !.mic_profile = mic_profile'], key)
       IN  /\ NamedField(mic_profile', key) = NamedField(mic_profile, key) => after = before
           /\ (key = "CompressorAttack"
                 /\ mic_profile'.compressor.attack # mic_profile.compressor.attack)
                => after # before]_vars

\* C39: after a successful SetGateActive(a) the stored gate is active
\* exactly if a, and the GateEnabled effect value pushed to the hardware is 1
\* if the stored gate is active and 0 if it is not.
C39_GateEnabledReflects ==
  [][(Commanded("SetGateActive") /\ last'.ok)
       => /\ mic_profile'.gate.enabled = last'.cmd.a
          /\ Pushed(last'.log, "set_effect_values")
               = {<<"GateEnabled", Bool2Int(last'.cmd.a)>>}
          /\ goxlr'.effects["GateEnabled"] = Bool2Int(mic_profile'.gate.enabled)]_vars

-----------------------------------------------------------------------------
(* Claims checked under SpecCmd: the bleep volume                           *)

\* C40: the bleep volume that status() reports is the bleep level last
\* pushed to the hardware: after the device was set up with no bleep volume
\* stored, where the same default is reported and pushed, and after a
\* successful SetSwearButtonVolume.
C40_BleepReported ==
  (last.ok /\ (last.op = "new" \/ (last.op = "perform_command"
                                     /\ last.cmd.name = "SetSwearButtonVolume")))
    => get_bleep_volume(Dev) = goxlr.effects["BleepLevel"]

====
